---- MODULE Spec2Model ----
(***************************************************************************)
(* ZeroBookSwap: the ZCoin ledger and the payment-verification pipeline.   *)
(*                                                                         *)
(* Decimal values (Birr and ZCoin, two decimal places) are integers in     *)
(* hundredths: 150.00 is 15000.  A database row is a record; a table is a  *)
(* set, a sequence or a function keyed by primary key.  Blocks run under   *)
(* transaction.atomic() are one step; the admin list actions, which run in *)
(* autocommit mode, are one step per database statement.                   *)
(***************************************************************************)
EXTENDS Integers, Sequences, FiniteSets, TLC

VARIABLES users, wallet, transactions, payments, payment_id_seq,
          books, swaps, admin, mock_mode, response, commodities, purchases,
          zcoin_settings, calculation_log, requests

vars == <<users, wallet, transactions, payments, payment_id_seq,
          books, swaps, admin, mock_mode, response, commodities, purchases,
          zcoin_settings, calculation_log, requests>>

\* The tables of the valuation: ZCoinCalculatorSettings, ZCoinCalculationLog
valuation == <<zcoin_settings, calculation_log>>

ledger == <<wallet, transactions, payments, payment_id_seq>>

-----------------------------------------------------------------------------
(* Bounds of the model *)

MaxTx == 3

MaxPayments == 2

MaxBooks == 2

MaxPurchases == 2

\* The valuations explored with all inputs, and the rows of the log explored
MaxValuations == 1

MaxLog == 2

\* The requests in flight at one time
MaxInFlight == 2

-----------------------------------------------------------------------------
(* Program constants, in hundredths *)

ZCOIN_PRICE_PER_BIRR == 100

MIN_TOPUP == 1000

tolerance == 50

ADD_ZCOIN_AMOUNT == 10000

DEDUCT_ZCOIN_AMOUNT == 5000

MOCK_SETTLED_AMOUNT == 15000

MOCK_TOTAL_PAID_AMOUNT == 15345

SEED_BOOK_ZCOIN == 383600

NULL == 0

CREATE_PAYMENT_RATE == 100

UserIds == {"u1", "u2"}

\* Users are interchangeable: they register in the order u1, u2
MayRegister(u) == u = "u1" \/ "u1" \in users

-----------------------------------------------------------------------------
(* CoinPackage rows: id 1 is an active package, id 2 has been switched off *)
(* by the admin (list_editable is_active).                                 *)

CoinPackage ==
    { [id |-> 1, zcoin_amount |-> 500000, price_birr |-> 4500, is_active |-> TRUE],
      [id |-> 2, zcoin_amount |-> 100000, price_birr |-> 1000, is_active |-> FALSE] }

\* request.data.get('custom_amount'): absent, a decimal literal, or other text
NoAmount == [kind |-> "none", v |-> 0]

BadAmount == [kind |-> "text", v |-> 0]

Num(n) == [kind |-> "num", v |-> n]

CustomAmounts == {NoAmount, BadAmount, Num(999), Num(4500), Num(15000)}

\* The (coin_package_id, custom_amount) pairs of the requests explored
TopUpRequests ==
    { <<NULL, c>> : c \in CustomAmounts } \cup
    { <<1, NoAmount>>, <<1, Num(15000)>>, <<2, NoAmount>> }

\* The (coin_package_id, custom_amount) pairs sent to CreatePaymentView
QuoteRequests ==
    { <<NULL, Num(999)>>, <<NULL, Num(4500)>>, <<1, Num(15000)>>, <<2, NoAmount>> }

\* request.data.get('reference_number', ''), before .strip()
RawReferences == {" ", " R1 ", "R2"}

strip(raw) ==
    CASE raw = " "    -> ""
      [] raw = " R1 " -> "R1"
      [] OTHER        -> raw

-----------------------------------------------------------------------------
(* TelebirrReceipt and TelebirrVerifier *)

\* An amount string of a receipt: "", "<v> Birr", or text holding no digit.
EmptyStr == [kind |-> "empty", v |-> 0]

NoDigits == [kind |-> "nodigits", v |-> 0]

Birr(n) == [kind |-> "birr", v |-> n]

TelebirrReceipt(no, payer, settled, total, st) ==
    [receipt_no |-> no, payer_name |-> payer, settled_amount |-> settled,
     total_paid_amount |-> total, transaction_status |-> st]

\* str.upper() on the references the requests carry
upper(s) == CASE s = "ft24ab" -> "FT24AB" [] s = "r1" -> "R1" [] OTHER -> s

_mock_verify(reference) ==
    TelebirrReceipt(upper(reference), "Abebe Kebede", Birr(MOCK_SETTLED_AMOUNT),
                    Birr(MOCK_TOTAL_PAID_AMOUNT), "Completed")

\* Python truthiness of an amount string
Truthy(s) == s.kind # "empty"

\* A validity test that does not look at the transaction status
_is_valid_receipt_any_status(receipt) ==
    /\ receipt.receipt_no # ""
    /\ receipt.payer_name # ""
    /\ (Truthy(receipt.settled_amount) \/ Truthy(receipt.total_paid_amount))

_is_valid_receipt(receipt) ==
    /\ receipt.receipt_no # ""
    /\ receipt.payer_name # ""
    /\ (Truthy(receipt.settled_amount) \/ Truthy(receipt.total_paid_amount))
    /\ receipt.transaction_status # ""

\* What the receipt page can answer in live mode: the GET raises, answers a
\* status other than 200, or answers a page that is scraped into a receipt.
SettledAmounts ==
    {EmptyStr, NoDigits, Birr(4449), Birr(4450), Birr(4550), Birr(4551)}

ScrapedReceipts ==
    { TelebirrReceipt(no, payer, settled, EmptyStr, st) :
        no \in {"", "RCPT"}, payer \in {"", "Abebe"},
        settled \in SettledAmounts, st \in {"", "Completed"} }
    \cup { TelebirrReceipt("RCPT", "Abebe", EmptyStr, Birr(4500), "Completed") }

HttpResponses ==
    { [raises |-> TRUE, status_code |-> 0, page |-> <<>>],
      [raises |-> FALSE, status_code |-> 404, page |-> <<>>] }
    \cup { [raises |-> FALSE, status_code |-> 200, page |-> <<r>>] : r \in ScrapedReceipts }

\* verify(reference): <<receipt>> or <<>> (None)
TelebirrVerifier_verify(mock, reference, http) ==
    IF mock THEN << _mock_verify(reference) >>
    ELSE IF http.raises THEN <<>>
    ELSE IF http.status_code # 200 THEN <<>>
    ELSE IF _is_valid_receipt(http.page[1]) THEN http.page
    ELSE <<>>

\* What verify() can return in live mode, over all answers of the receipt
\* page (the reference only selects the page)
LiveResults == { TelebirrVerifier_verify(FALSE, "", http) : http \in HttpResponses }

\* What verify(reference) can return
VerifyResults(mock, reference) ==
    IF mock THEN { TelebirrVerifier_verify(TRUE, reference, http) :
                     http \in {[raises |-> TRUE, status_code |-> 0, page |-> <<>>]} }
    ELSE LiveResults

-----------------------------------------------------------------------------
(* Ledger helpers *)

\* A get-or-create that writes the default balance also over an existing row
update_or_create_for_user(w, u) ==
    [x \in DOMAIN w \cup {u} |-> IF x = u THEN 0 ELSE w[x]]

\* Wallet.get_or_create_for_user: the wallet table after the call
get_or_create_for_user(w, u) ==
    IF u \in DOMAIN w THEN w
    ELSE [x \in DOMAIN w \cup {u} |-> IF x = u THEN 0 ELSE w[x]]

\* An UPDATE of the balance without the filter on the wallet's row
wallet_save_unfiltered(w, u, b) == [x \in DOMAIN w \cup {u} |-> b]

\* wallet.zcoin_balance = b; wallet.save()
wallet_save(w, u, b) ==
    [x \in DOMAIN w \cup {u} |-> IF x = u THEN b ELSE w[x]]

\* description keeps the part of the text that names the entity: the
\* reference of a top-up, the wording of the other kinds.
Transaction(u, type, amount, description, swap, payment) ==
    [user |-> u, transaction_type |-> type, amount |-> amount,
     description |-> description, related_swap |-> swap, related_payment |-> payment]

Payment(id, u, pkg, amount_birr, zcoin, ref, st) ==
    [id |-> id, user |-> u, coin_package |-> pkg, amount_birr |-> amount_birr,
     zcoin_amount |-> zcoin, reference_number |-> ref, status |-> st]

\* The answer to the last request, and whether verifier.verify() was called
\* while it was handled.
Response(op, code, error) ==
    [op |-> op, code |-> code, error |-> error,
     expected_amount |-> 0, received_amount |-> 0, zcoin_amount |-> 0,
     verifier_called |-> FALSE]

\* An answer given after line 204
AfterVerify(code, error) == [Response("verify", code, error) EXCEPT !.verifier_called = TRUE]

RECURSIVE SumAmounts(_, _)
SumAmounts(txs, u) ==
    IF txs = <<>> THEN 0
    ELSE (IF Head(txs).user = u THEN Head(txs).amount ELSE 0) + SumAmounts(Tail(txs), u)

Balance(u) == IF u \in DOMAIN wallet THEN wallet[u] ELSE 0

\* The log is capped at MaxTx rows; an admin action under way has one row
\* still to append.
TxRoom == Len(transactions) + (IF admin.pc = "idle" THEN 0 ELSE 1) < MaxTx

-----------------------------------------------------------------------------
(* State after deployment and seeding: the seeded swap book, no user rows. *)

SeedBook ==
    [added_by |-> "admin", zcoin_value |-> SEED_BOOK_ZCOIN, status |-> "pending",
     is_available |-> TRUE, book_type |-> "swap"]

\* The seeded commodity "Book Lover's Mug"
SEED_COMMODITY_ZCOIN == 1000000

SEED_COMMODITY_STOCK == 40

SeedCommodity ==
    [name |-> "Book Lover's Mug", zcoin_value |-> SEED_COMMODITY_ZCOIN,
     stock_quantity |-> SEED_COMMODITY_STOCK]

\* The admin list action under way: pc is "idle", "save" (the wallet object
\* was read and changed in memory, wallet.save() is next) or "log"
\* (Transaction.objects.create is next).
AdminIdle == [pc |-> "idle", action |-> "", user |-> "", zcoin_balance |-> 0,
              amount |-> 0, swap |-> NULL, book |-> NULL]

Init ==
    /\ users = {}
    /\ wallet = << >>
    /\ transactions = << >>
    /\ payments = {}
    /\ payment_id_seq = 0
    /\ books = [b \in {1} |-> SeedBook]
    /\ swaps = << >>
    /\ admin = AdminIdle
    /\ mock_mode \in BOOLEAN
    /\ response = Response("", 0, "")
    /\ commodities = << SeedCommodity >>
    /\ purchases = << >>
    /\ zcoin_settings = << >>
    /\ calculation_log = << >>
    /\ requests = << >>

-----------------------------------------------------------------------------
(* UserRegistrationSerializer.create *)

UserRegistrationView_post(u) ==
    /\ u \notin users
    /\ users' = users \cup {u}
    /\ wallet' = get_or_create_for_user(wallet, u)
    /\ response' = Response("register", 201, "")
    /\ UNCHANGED <<transactions, payments, payment_id_seq, books, swaps, admin, mock_mode, commodities, purchases>>
    /\ UNCHANGED <<valuation, requests>>

-----------------------------------------------------------------------------
(* PaymentVerificationView.post *)

\* Lines 167-200: the checks made before the verifier is called.  The result
\* carries the error ("" when the request passes), the expected amount and
\* the ZCoin to add.
Checked(error, code, expected_amount, zcoin_to_add) ==
    [error |-> error, code |-> code, expected_amount |-> expected_amount,
     zcoin_to_add |-> zcoin_to_add]

ActivePackage(coin_package_id) ==
    { p \in CoinPackage : p.id = coin_package_id /\ p.is_active }

\* Payment.objects.filter(reference_number=reference_number).exists()
reference_used(rows, reference_number) ==
    \E p \in rows : p.reference_number = reference_number

\* A derivation that takes the price from the package and the ZCoin from the
\* custom amount when both are sent
determine_expected_mixed(coin_package_id, custom_amount) ==
    IF coin_package_id # NULL THEN
        IF ActivePackage(coin_package_id) = {}
        THEN Checked("invalid_package", 400, 0, 0)
        ELSE LET package == CHOOSE p \in ActivePackage(coin_package_id) : TRUE
             IN Checked("", 0, package.price_birr,
                        IF custom_amount.kind = "num"
                        THEN custom_amount.v * ZCOIN_PRICE_PER_BIRR
                        ELSE package.zcoin_amount)
    ELSE IF custom_amount.kind = "num" /\ custom_amount.v >= MIN_TOPUP
    THEN Checked("", 0, custom_amount.v, custom_amount.v * ZCOIN_PRICE_PER_BIRR)
    ELSE Checked("amount_required", 400, 0, 0)

\* The floor of the custom amount left out
determine_expected_no_floor(coin_package_id, custom_amount) ==
    IF custom_amount.kind = "num"
    THEN Checked("", 0, custom_amount.v, custom_amount.v * ZCOIN_PRICE_PER_BIRR)
    ELSE Checked("amount_required", 400, 0, 0)

determine_expected(coin_package_id, custom_amount) ==
    IF coin_package_id # NULL THEN
        IF ActivePackage(coin_package_id) = {}
        THEN Checked("invalid_package", 400, 0, 0)
        ELSE LET package == CHOOSE p \in ActivePackage(coin_package_id) : TRUE
             IN Checked("", 0, package.price_birr, package.zcoin_amount)
    ELSE IF custom_amount.kind # "none" /\ custom_amount # Num(0) THEN
        \* Decimal(str(custom_amount)) raises decimal.InvalidOperation on text;
        \* the except clause names Decimal.InvalidOperation, which does not
        \* exist, so the AttributeError of the clause itself leaves the view.
        IF custom_amount.kind = "text" THEN Checked("unhandled", 500, 0, 0)
        ELSE IF custom_amount.v < MIN_TOPUP THEN Checked("minimum_topup", 400, 0, 0)
        ELSE Checked("", 0, custom_amount.v, custom_amount.v * ZCOIN_PRICE_PER_BIRR)
    ELSE Checked("amount_required", 400, 0, 0)

check_request(rows, reference_number, coin_package_id, custom_amount) ==
    IF reference_number = "" THEN Checked("reference_required", 400, 0, 0)
    ELSE IF reference_used(rows, reference_number) THEN Checked("duplicate", 400, 0, 0)
    ELSE determine_expected(coin_package_id, custom_amount)

\* Lines 217-221: amount_str = settled or total or ""; first run of digits
amount_str(receipt) ==
    IF Truthy(receipt.settled_amount) THEN receipt.settled_amount
    ELSE receipt.total_paid_amount

\* The band with its bounds left out
within_tolerance_exclusive(expected_amount, paid_amount) ==
    /\ expected_amount - tolerance < paid_amount
    /\ paid_amount < expected_amount + tolerance

within_tolerance(expected_amount, paid_amount) ==
    /\ expected_amount - tolerance <= paid_amount
    /\ paid_amount <= expected_amount + tolerance

\* A Payment table without the unique constraint on reference_number
no_constraint(rows, reference_number) == FALSE

\* Payment.reference_number is unique: Payment.objects.create raises
\* IntegrityError when a row carries the reference
IntegrityError(rows, reference_number) == reference_used(rows, reference_number)

\* An atomic block that writes its Transaction over the last row of the log
credit_payment_rewriting(u, reference_number, coin_package_id, chk, paid_amount) ==
    /\ payment_id_seq < MaxPayments
    /\ payment_id_seq' = payment_id_seq + 1
    /\ payments' = payments \cup
          { Payment(payment_id_seq + 1, u, coin_package_id, chk.expected_amount,
                    chk.zcoin_to_add, reference_number, "verified") }
    /\ wallet' = wallet_save(get_or_create_for_user(wallet, u), u,
                             Balance(u) + chk.zcoin_to_add)
    /\ transactions' =
          Append(IF transactions = << >> THEN transactions
                 ELSE SubSeq(transactions, 1, Len(transactions) - 1),
                 Transaction(u, "topup", chk.zcoin_to_add, reference_number, NULL,
                             payment_id_seq + 1))
    /\ response' = [AfterVerify(200, "") EXCEPT !.received_amount = paid_amount,
                                              !.zcoin_amount = chk.zcoin_to_add]

\* Lines 233-260: the atomic block
credit_payment(u, reference_number, coin_package_id, chk, paid_amount) ==
    /\ payment_id_seq < MaxPayments
    /\ TxRoom
    /\ payment_id_seq' = payment_id_seq + 1
    /\ payments' = payments \cup
          { Payment(payment_id_seq + 1, u, coin_package_id, chk.expected_amount,
                    chk.zcoin_to_add, reference_number, "verified") }
    /\ wallet' = wallet_save(get_or_create_for_user(wallet, u), u,
                             Balance(u) + chk.zcoin_to_add)
    /\ transactions' = Append(transactions,
          Transaction(u, "topup", chk.zcoin_to_add, reference_number, NULL,
                      payment_id_seq + 1))
    /\ response' = [AfterVerify(200, "") EXCEPT !.received_amount = paid_amount,
                                              !.zcoin_amount = chk.zcoin_to_add]

\* A failure inside the block that leaves the Payment row behind
credit_failed_half_written(u, reference_number) ==
    /\ payment_id_seq < MaxPayments
    /\ payment_id_seq' = payment_id_seq + 1
    /\ payments' = payments \cup
          { Payment(payment_id_seq + 1, u, NULL, 0, 0, reference_number, "verified") }
    /\ response' = AfterVerify(500, "credit_failed")
    /\ UNCHANGED <<wallet, transactions>>

\* Lines 262-264: an exception inside the atomic block rolls the block back
credit_failed(u, reference_number) ==
    /\ response' = AfterVerify(500, "credit_failed")
    /\ UNCHANGED ledger

reconcile_and_credit(u, reference_number, coin_package_id, chk, receipt) ==
    IF amount_str(receipt).kind # "birr" THEN
        \* re.search(...) is None: AttributeError, and the except clause fails
        \* as above
        /\ response' = AfterVerify(500, "unhandled")
        /\ UNCHANGED ledger
    ELSE LET paid_amount == amount_str(receipt).v IN
         IF ~within_tolerance(chk.expected_amount, paid_amount) THEN
            /\ response' = [AfterVerify(400, "amount_mismatch") EXCEPT
                               !.expected_amount = chk.expected_amount,
                               !.received_amount = paid_amount]
            /\ UNCHANGED ledger
         ELSE \E saved \in BOOLEAN :
                IF saved /\ ~IntegrityError(payments, reference_number)
                THEN credit_payment(u, reference_number, coin_package_id, chk,
                                    paid_amount)
                ELSE credit_failed(u, reference_number)

\* A failed verification that keeps a 'failed' Payment row for the reference
payment_not_found_recorded(u, reference_number) ==
    /\ payment_id_seq < MaxPayments
    /\ payments' = payments \cup
          { Payment(payment_id_seq + 1, u, NULL, 0, 0, reference_number, "failed") }
    /\ payment_id_seq' = payment_id_seq + 1
    /\ response' = AfterVerify(400, "not_found")
    /\ UNCHANGED <<wallet, transactions>>

\* Lines 206-214: verify() returned None
payment_not_found(u, reference_number) ==
    /\ response' = AfterVerify(400, "not_found")
    /\ UNCHANGED ledger

PaymentVerificationView_post(u, raw_reference, coin_package_id, custom_amount) ==
    /\ u \in users
    /\ LET reference_number == strip(raw_reference)
           chk == check_request(payments, reference_number, coin_package_id, custom_amount)
       IN IF chk.error # "" THEN
             /\ response' = Response("verify", chk.code, chk.error)
             /\ UNCHANGED ledger
          ELSE \E result \in VerifyResults(mock_mode, reference_number) :
                 IF result = <<>> THEN payment_not_found(u, reference_number)
                 ELSE reconcile_and_credit(u, reference_number, coin_package_id,
                                           chk, result[1])
    /\ UNCHANGED <<users, books, swaps, admin, mock_mode, commodities, purchases>>
    /\ UNCHANGED <<valuation, requests>>

-----------------------------------------------------------------------------
(* PaymentVerificationView.post in two steps, for requests that overlap: the *)
(* checks and the call of the verifier read the tables and write nothing;    *)
(* the atomic block comes later, when other requests may have committed.     *)

\* Lines 167-204: the request passed the checks and the verifier answered
PaymentVerificationView_post_begin(u, raw_reference, coin_package_id, custom_amount) ==
    /\ u \in users
    /\ LET reference_number == strip(raw_reference)
           chk == check_request(payments, reference_number, coin_package_id, custom_amount)
       IN IF chk.error # "" THEN
             /\ response' = Response("verify", chk.code, chk.error)
             /\ requests' = requests
          ELSE \E result \in VerifyResults(mock_mode, reference_number) :
                 /\ requests' = Append(requests,
                       [user |-> u, reference_number |-> reference_number,
                        coin_package_id |-> coin_package_id, chk |-> chk,
                        result |-> result])
                 /\ response' = response
    /\ UNCHANGED ledger
    /\ UNCHANGED <<users, books, swaps, admin, mock_mode, commodities, purchases>>
    /\ UNCHANGED valuation

\* A handler that answers and keeps its request in flight
PaymentVerificationView_post_finish_pending(i) ==
    /\ i \in DOMAIN requests
    /\ LET r == requests[i] IN
       IF r.result = <<>> THEN payment_not_found(r.user, r.reference_number)
       ELSE reconcile_and_credit(r.user, r.reference_number, r.coin_package_id,
                                 r.chk, r.result[1])
    /\ requests' = requests
    /\ UNCHANGED <<users, books, swaps, admin, mock_mode, commodities, purchases>>
    /\ UNCHANGED valuation

\* Lines 206-276 of the i-th request in flight
PaymentVerificationView_post_finish(i) ==
    /\ i \in DOMAIN requests
    /\ LET r == requests[i] IN
       IF r.result = <<>> THEN payment_not_found(r.user, r.reference_number)
       ELSE reconcile_and_credit(r.user, r.reference_number, r.coin_package_id,
                                 r.chk, r.result[1])
    /\ requests' = [j \in 1..(Len(requests) - 1) |->
                       IF j < i THEN requests[j] ELSE requests[j + 1]]
    /\ UNCHANGED <<users, books, swaps, admin, mock_mode, commodities, purchases>>
    /\ UNCHANGED valuation

-----------------------------------------------------------------------------
(* CreatePaymentView: the quote and the payment instructions; no write *)

\* Lines 120-137.  Every exception (no such active package, a custom amount
\* that is no decimal) is answered 400 by the except clause of line 158.
create_payment_quote(coin_package_id, custom_amount) ==
    IF coin_package_id = NULL /\ (custom_amount.kind = "none" \/ custom_amount = Num(0))
    THEN Checked("amount_required", 400, 0, 0)
    ELSE IF coin_package_id # NULL THEN
        IF ActivePackage(coin_package_id) = {}
        THEN Checked("invalid_package", 400, 0, 0)
        ELSE LET package == CHOOSE p \in ActivePackage(coin_package_id) : TRUE
             IN Checked("", 200, package.price_birr, package.zcoin_amount)
    ELSE IF custom_amount.kind = "text" THEN Checked("invalid_amount", 400, 0, 0)
    ELSE IF custom_amount.v < MIN_TOPUP THEN Checked("minimum_topup", 400, 0, 0)
    ELSE Checked("", 200, custom_amount.v, custom_amount.v * CREATE_PAYMENT_RATE)

CreatePaymentView_post(u, coin_package_id, custom_amount) ==
    /\ u \in users
    /\ LET quote == create_payment_quote(coin_package_id, custom_amount) IN
       response' = [Response("create_payment", quote.code, quote.error) EXCEPT
                       !.expected_amount = quote.expected_amount,
                       !.zcoin_amount = quote.zcoin_to_add]
    /\ UNCHANGED <<users, wallet, transactions, payments, payment_id_seq, books, swaps,
                   admin, mock_mode, commodities, purchases>>
    /\ UNCHANGED <<valuation, requests>>

-----------------------------------------------------------------------------
(* PaymentViewSet: a ModelViewSet over the caller's own Payment rows *)

own_payments(u) == { p \in payments : p.user = u }

\* POST: PaymentSerializer validates reference_number (not blank, unique);
\* perform_create fills user, amount_birr and zcoin_amount from the package.
PaymentViewSet_perform_create(u, raw_reference, coin_package) ==
    /\ u \in users
    /\ LET reference_number == strip(raw_reference) IN
       IF reference_number = "" \/ reference_used(payments, reference_number) THEN
          /\ response' = Response("payment_create", 400, "invalid")
          /\ UNCHANGED <<payments, payment_id_seq>>
       ELSE
          /\ payment_id_seq < MaxPayments
          /\ LET package == CHOOSE p \in CoinPackage : p.id = coin_package IN
             payments' = payments \cup
                { Payment(payment_id_seq + 1, u, coin_package, package.price_birr,
                          package.zcoin_amount, reference_number, "pending") }
          /\ payment_id_seq' = payment_id_seq + 1
          /\ response' = Response("payment_create", 201, "")
    /\ UNCHANGED <<users, wallet, transactions, books, swaps, admin, mock_mode, commodities, purchases>>
    /\ UNCHANGED <<valuation, requests>>

\* PUT/PATCH: reference_number is writable (read_only_fields leaves it out)
PaymentViewSet_update(u, id, raw_reference) ==
    /\ u \in users
    /\ \E p \in own_payments(u) :
         /\ p.id = id
         /\ LET reference_number == strip(raw_reference) IN
            IF \/ reference_number = ""
               \/ \E q \in payments \ {p} : q.reference_number = reference_number
            THEN /\ response' = Response("payment_update", 400, "invalid")
                 /\ UNCHANGED payments
            ELSE /\ payments' = (payments \ {p}) \cup
                                  { [p EXCEPT !.reference_number = reference_number] }
                 /\ response' = Response("payment_update", 200, "")
    /\ UNCHANGED <<users, wallet, transactions, payment_id_seq, books, swaps, admin,
                   mock_mode, commodities, purchases>>
    /\ UNCHANGED <<valuation, requests>>

\* DELETE: the row goes; Transaction.related_payment is SET_NULL
PaymentViewSet_destroy(u, id) ==
    /\ u \in users
    /\ \E p \in own_payments(u) :
         /\ p.id = id
         /\ payments' = payments \ {p}
         /\ transactions' =
               [i \in 1..Len(transactions) |->
                  IF transactions[i].related_payment = id
                  THEN [transactions[i] EXCEPT !.related_payment = NULL]
                  ELSE transactions[i]]
         /\ response' = Response("payment_destroy", 204, "")
    /\ UNCHANGED <<users, wallet, payment_id_seq, books, swaps, admin, mock_mode, commodities, purchases>>
    /\ UNCHANGED <<valuation, requests>>

-----------------------------------------------------------------------------
(* Books: submission, review, approval *)

BookZcoinValues == {0, 4000}

\* BookViewSet.perform_create: zcoin_value comes from the request
BookViewSet_perform_create(u, zcoin_value) ==
    /\ u \in users
    /\ Cardinality(DOMAIN books) < MaxBooks
    /\ LET id == Cardinality(DOMAIN books) + 1 IN
       books' = [b \in DOMAIN books \cup {id} |->
                   IF b = id
                   THEN [added_by |-> u, zcoin_value |-> zcoin_value,
                         status |-> "pending", is_available |-> FALSE,
                         book_type |-> "swap"]
                   ELSE books[b]]
    /\ response' = Response("book_create", 201, "")
    /\ UNCHANGED <<users, wallet, transactions, payments, payment_id_seq, swaps, admin,
                   mock_mode, commodities, purchases>>
    /\ UNCHANGED <<valuation, requests>>

\* BookAdmin change form: the reviewer marks a pending book reviewed
BookAdmin_review(b) ==
    /\ b \in DOMAIN books
    /\ books[b].status = "pending"
    /\ books[b].added_by \in users
    /\ books' = [books EXCEPT ![b].status = "reviewed"]
    /\ response' = Response("admin", 200, "")
    /\ UNCHANGED <<users, wallet, transactions, payments, payment_id_seq, swaps, admin,
                   mock_mode, commodities, purchases>>
    /\ UNCHANGED <<valuation, requests>>

-----------------------------------------------------------------------------
(* ZCoinCalculatorSerializer and SwapRequestViewSet.perform_create *)

BOOK_GENRES == {"fiction", "non-fiction", "classics", "contemporary"}

BOOK_CONDITIONS == {"excellent", "good", "fair", "poor"}

category_value(genre) ==
    CASE genre = "classics"    -> 3000
      [] genre = "non-fiction" -> 2500
      [] genre = "fiction"     -> 2000
      [] OTHER                 -> 1500

condition_value(condition) ==
    CASE condition = "excellent" -> 5000
      [] condition = "good"      -> 3500
      [] condition = "poor"      -> 1000
      [] OTHER                   -> 2000

calculate_zcoin(genre, condition) == category_value(genre) + condition_value(condition)

max0(x) == IF x > 0 THEN x ELSE 0

SwapRequest(u, b, genre, condition, calculated_zcoin, st) ==
    [user |-> u, requested_book |-> b, user_book_genre |-> genre,
     user_book_condition |-> condition, calculated_zcoin |-> calculated_zcoin,
     status |-> st]

GenreInputs == {"fiction", "romance"}

ConditionInputs == {"good", "poor"}

BookInputs == 1..(MaxBooks + 1)

SwapRequestViewSet_perform_create(u, b, genre, condition) ==
    /\ u \in users
    /\ IF b \notin DOMAIN books \/ genre \notin BOOK_GENRES
          \/ condition \notin BOOK_CONDITIONS THEN
          \* SwapRequestSerializer / ZCoinCalculatorSerializer is not valid
          /\ response' = Response("swap_create", 400, "invalid")
          /\ UNCHANGED <<wallet, transactions, books, swaps>>
       ELSE IF ~(books[b].is_available /\ books[b].book_type = "swap") THEN
          /\ response' = Response("swap_create", 400, "book_not_available")
          /\ UNCHANGED <<wallet, transactions, books, swaps>>
       ELSE
          LET user_wallet == get_or_create_for_user(wallet, u)
              required_zcoin == books[b].zcoin_value
              calculated_zcoin == IF books[b].zcoin_value # 0 THEN books[b].zcoin_value
                                  ELSE calculate_zcoin(genre, condition)
              zcoin_difference == max0(user_wallet[u] - calculated_zcoin)
          IN IF zcoin_difference > 0 /\ user_wallet[u] < zcoin_difference THEN
                /\ response' = Response("swap_create", 400, "insufficient_zcoin")
                /\ UNCHANGED <<wallet, transactions, books, swaps>>
             ELSE
                /\ TxRoom
                /\ swaps' = Append(swaps, SwapRequest(u, b, genre, condition,
                                                       calculated_zcoin, "pending"))
                /\ IF zcoin_difference >= 0 THEN
                      /\ wallet' = wallet_save(user_wallet, u,
                                               user_wallet[u] - calculated_zcoin)
                      /\ transactions' = Append(transactions,
                            Transaction(u, "swap", -calculated_zcoin, "Swap", Len(swaps) + 1,
                                        NULL))
                      /\ books' = [books EXCEPT ![b].is_available = FALSE]
                   ELSE
                      /\ wallet' = user_wallet
                      /\ UNCHANGED <<transactions, books>>
                /\ response' = Response("swap_create", 201, "")
    /\ UNCHANGED <<users, payments, payment_id_seq, admin, mock_mode, commodities, purchases>>
    /\ UNCHANGED <<valuation, requests>>

-----------------------------------------------------------------------------
(* SwapRequestViewSet.perform_create in two steps, for creations that       *)
(* overlap.  The whole method is one transaction.atomic() block on the       *)
(* sqlite database of settings.DATABASES: the block opens with BEGIN, its    *)
(* first SELECT takes a read lock that the connection keeps until the block  *)
(* ends, and a COMMIT needs the file for itself.  So no block commits while  *)
(* another one has read and is still open: of the open blocks all but one    *)
(* end with OperationalError 'database is locked' (at their first write, or  *)
(* at the commit when the wait runs out) and are rolled back.                *)

\* Lines 356-391: the block has read the wallet and the book and is about to
\* write; a request that fails a check is answered at once
SwapRequestViewSet_perform_create_begin(u, b, genre, condition) ==
    /\ u \in users
    /\ IF b \notin DOMAIN books \/ genre \notin BOOK_GENRES
          \/ condition \notin BOOK_CONDITIONS THEN
          /\ response' = Response("swap_create", 400, "invalid")
          /\ requests' = requests
       ELSE IF ~(books[b].is_available /\ books[b].book_type = "swap") THEN
          /\ response' = Response("swap_create", 400, "book_not_available")
          /\ requests' = requests
       ELSE
          LET user_wallet == get_or_create_for_user(wallet, u)
              calculated_zcoin == IF books[b].zcoin_value # 0 THEN books[b].zcoin_value
                                  ELSE calculate_zcoin(genre, condition)
              zcoin_difference == max0(user_wallet[u] - calculated_zcoin)
          IN IF zcoin_difference > 0 /\ user_wallet[u] < zcoin_difference THEN
                /\ response' = Response("swap_create", 400, "insufficient_zcoin")
                /\ requests' = requests
             ELSE
                /\ requests' = Append(requests,
                      [op |-> "swap_create", user |-> u, requested_book |-> b,
                       user_book_genre |-> genre, user_book_condition |-> condition,
                       calculated_zcoin |-> calculated_zcoin,
                       zcoin_balance |-> user_wallet[u]])
                /\ response' = response
    /\ UNCHANGED <<users, wallet, transactions, payments, payment_id_seq, books, swaps,
                   admin, mock_mode, commodities, purchases>>
    /\ UNCHANGED valuation

\* The writes of lines 393-410 with what the block read, and the commit
swap_writes(i) ==
    LET r == requests[i] IN
    /\ TxRoom
    /\ swaps' = Append(swaps, SwapRequest(r.user, r.requested_book, r.user_book_genre,
                                           r.user_book_condition, r.calculated_zcoin,
                                           "pending"))
    /\ wallet' = wallet_save(get_or_create_for_user(wallet, r.user), r.user,
                             r.zcoin_balance - r.calculated_zcoin)
    /\ transactions' = Append(transactions,
          Transaction(r.user, "swap", -r.calculated_zcoin, "Swap", Len(swaps) + 1, NULL))
    /\ books' = [books EXCEPT ![r.requested_book].is_available = FALSE]
    /\ response' = Response("swap_create", 201, "")
    /\ requests' = [j \in 1..(Len(requests) - 1) |->
                       IF j < i THEN requests[j] ELSE requests[j + 1]]
    /\ UNCHANGED <<users, payments, payment_id_seq, admin, mock_mode, commodities,
                   purchases>>
    /\ UNCHANGED valuation

\* A database that lets a block commit while other blocks are open
SwapRequestViewSet_perform_create_commit_unlocked(i) ==
    /\ i \in DOMAIN requests
    /\ swap_writes(i)

\* Lines 393-410 of the i-th creation in flight: no other block is open
SwapRequestViewSet_perform_create_commit(i) ==
    /\ i \in DOMAIN requests
    /\ Len(requests) = 1
    /\ swap_writes(i)

\* The i-th creation in flight finds the database locked by another block:
\* the OperationalError leaves the view, the block is rolled back
SwapRequestViewSet_perform_create_locked(i) ==
    /\ i \in DOMAIN requests
    /\ Len(requests) > 1
    /\ response' = Response("swap_create", 500, "database_locked")
    /\ requests' = [j \in 1..(Len(requests) - 1) |->
                       IF j < i THEN requests[j] ELSE requests[j + 1]]
    /\ UNCHANGED <<users, wallet, transactions, payments, payment_id_seq, books, swaps,
                   admin, mock_mode, commodities, purchases>>
    /\ UNCHANGED valuation

-----------------------------------------------------------------------------
(* Admin list actions.  They run outside any transaction, so the statements *)
(* of one action interleave with the requests of the users.  One selected   *)
(* row per invocation.                                                       *)

AdminStart(action, u, new_balance, amount) ==
    [pc |-> "save", action |-> action, user |-> u, zcoin_balance |-> new_balance,
     amount |-> amount, swap |-> NULL, book |-> NULL]

\* WalletAdmin.add_zcoin(amount=100)
WalletAdmin_add_zcoin(u) ==
    /\ \/ /\ admin.pc = "idle"
          /\ u \in DOMAIN wallet
          /\ TxRoom
          /\ admin' = AdminStart("add_zcoin", u, wallet[u] + ADD_ZCOIN_AMOUNT,
                                 ADD_ZCOIN_AMOUNT)
          /\ UNCHANGED <<wallet, transactions>>
       \/ /\ admin.pc = "save" /\ admin.action = "add_zcoin" /\ admin.user = u
          /\ wallet' = wallet_save(wallet, u, admin.zcoin_balance)
          /\ admin' = [admin EXCEPT !.pc = "log"]
          /\ UNCHANGED transactions
       \/ /\ admin.pc = "log" /\ admin.action = "add_zcoin" /\ admin.user = u
          /\ transactions' = Append(transactions,
                Transaction(u, "topup", admin.amount, "Admin added", NULL, NULL))
          /\ admin' = AdminIdle
          /\ UNCHANGED wallet
    /\ response' = Response("admin", 200, "")
    /\ UNCHANGED <<users, payments, payment_id_seq, books, swaps, mock_mode, commodities, purchases>>
    /\ UNCHANGED <<valuation, requests>>

\* WalletAdmin.deduct_zcoin(amount=50)
WalletAdmin_deduct_zcoin(u) ==
    /\ \/ /\ admin.pc = "idle"
          /\ u \in DOMAIN wallet
          /\ TxRoom
          /\ admin' = IF wallet[u] >= DEDUCT_ZCOIN_AMOUNT
                      THEN AdminStart("deduct_zcoin", u, wallet[u] - DEDUCT_ZCOIN_AMOUNT,
                                      -DEDUCT_ZCOIN_AMOUNT)
                      ELSE AdminIdle
          /\ UNCHANGED <<wallet, transactions>>
       \/ /\ admin.pc = "save" /\ admin.action = "deduct_zcoin" /\ admin.user = u
          /\ wallet' = wallet_save(wallet, u, admin.zcoin_balance)
          /\ admin' = [admin EXCEPT !.pc = "log"]
          /\ UNCHANGED transactions
       \/ /\ admin.pc = "log" /\ admin.action = "deduct_zcoin" /\ admin.user = u
          /\ transactions' = Append(transactions,
                Transaction(u, "refund", admin.amount, "Admin deducted", NULL, NULL))
          /\ admin' = AdminIdle
          /\ UNCHANGED wallet
    /\ response' = Response("admin", 200, "")
    /\ UNCHANGED <<users, payments, payment_id_seq, books, swaps, mock_mode, commodities, purchases>>
    /\ UNCHANGED <<valuation, requests>>

\* BookAdmin.approve_books (superuser): award the book's ZCoin to its owner
BookAdmin_approve_books(b) ==
    /\ \/ /\ admin.pc = "idle"
          /\ b \in DOMAIN books
          /\ books[b].status = "reviewed"
          /\ TxRoom
          /\ LET u == books[b].added_by
                 w == get_or_create_for_user(wallet, u)
             IN /\ wallet' = w
                /\ admin' = [AdminStart("approve_books", u, w[u] + books[b].zcoin_value,
                                        books[b].zcoin_value) EXCEPT !.book = b]
          /\ UNCHANGED <<transactions, books, swaps>>
       \/ /\ admin.pc = "save" /\ admin.action = "approve_books" /\ admin.book = b
          /\ wallet' = wallet_save(wallet, admin.user, admin.zcoin_balance)
          /\ books' = [books EXCEPT ![b].status = "approved", ![b].is_available = TRUE]
          /\ admin' = [admin EXCEPT !.pc = "log"]
          /\ UNCHANGED <<transactions, swaps>>
       \/ /\ admin.pc = "log" /\ admin.action = "approve_books" /\ admin.book = b
          /\ transactions' = Append(transactions,
                Transaction(admin.user, "topup", admin.amount, "Book approved", NULL, NULL))
          /\ admin' = AdminIdle
          /\ UNCHANGED <<wallet, books, swaps>>
    /\ response' = Response("admin", 200, "")
    /\ UNCHANGED <<users, payments, payment_id_seq, mock_mode, commodities, purchases>>
    /\ UNCHANGED <<valuation, requests>>

\* An approval that refunds a pending swap and leaves it pending, to be
\* taken again
SwapRequestAdmin_approve_swaps_left_pending(id) ==
    /\ \/ /\ admin.pc = "idle"
          /\ id \in 1..Len(swaps)
          /\ swaps[id].status = "pending"
          /\ swaps' = swaps
          /\ LET swap == swaps[id]
                 diff == swap.calculated_zcoin - books[swap.requested_book].zcoin_value
             IN /\ diff > 0 => TxRoom
                /\ admin' = IF diff > 0
                            THEN [AdminStart("approve_swaps", swap.user,
                                             wallet[swap.user] + diff, diff)
                                    EXCEPT !.swap = id]
                            ELSE AdminIdle
          /\ UNCHANGED <<wallet, transactions>>
       \/ /\ admin.pc = "save" /\ admin.action = "approve_swaps" /\ admin.swap = id
          /\ wallet' = wallet_save(wallet, admin.user, admin.zcoin_balance)
          /\ admin' = [admin EXCEPT !.pc = "log"]
          /\ UNCHANGED <<transactions, swaps>>
       \/ /\ admin.pc = "log" /\ admin.action = "approve_swaps" /\ admin.swap = id
          /\ transactions' = Append(transactions,
                Transaction(admin.user, "refund", admin.amount, "Swap refund", id, NULL))
          /\ admin' = AdminIdle
          /\ UNCHANGED <<wallet, swaps>>
    /\ response' = Response("admin", 200, "")
    /\ UNCHANGED <<users, payments, payment_id_seq, books, mock_mode, commodities, purchases>>
    /\ UNCHANGED <<valuation, requests>>

\* SwapRequestAdmin.approve_swaps: approve a pending swap, refund the extra
SwapRequestAdmin_approve_swaps(id) ==
    /\ \/ /\ admin.pc = "idle"
          /\ id \in 1..Len(swaps)
          /\ swaps[id].status = "pending"
          /\ swaps' = [swaps EXCEPT ![id].status = "approved"]
          /\ LET swap == swaps[id]
                 diff == swap.calculated_zcoin - books[swap.requested_book].zcoin_value
             IN /\ diff > 0 => TxRoom
                /\ admin' = IF diff > 0
                            THEN [AdminStart("approve_swaps", swap.user,
                                             wallet[swap.user] + diff, diff)
                                    EXCEPT !.swap = id]
                            ELSE AdminIdle
          /\ UNCHANGED <<wallet, transactions>>
       \/ /\ admin.pc = "save" /\ admin.action = "approve_swaps" /\ admin.swap = id
          /\ wallet' = wallet_save(wallet, admin.user, admin.zcoin_balance)
          /\ admin' = [admin EXCEPT !.pc = "log"]
          /\ UNCHANGED <<transactions, swaps>>
       \/ /\ admin.pc = "log" /\ admin.action = "approve_swaps" /\ admin.swap = id
          /\ transactions' = Append(transactions,
                Transaction(admin.user, "refund", admin.amount, "Swap refund", id, NULL))
          /\ admin' = AdminIdle
          /\ UNCHANGED <<wallet, swaps>>
    /\ response' = Response("admin", 200, "")
    /\ UNCHANGED <<users, payments, payment_id_seq, books, mock_mode, commodities, purchases>>
    /\ UNCHANGED <<valuation, requests>>

-----------------------------------------------------------------------------
(* Commodity purchases and CommodityPurchaseAdmin.  The purchase endpoint   *)
(* debits the total, takes the units from the stock and stores a pending    *)
(* purchase.  The admin actions work on one selected purchase.              *)

CommodityPurchase(u, c, quantity, total_zcoin, st) ==
    [user |-> u, commodity |-> c, quantity |-> quantity, total_zcoin |-> total_zcoin,
     status |-> st]

PurchaseQuantities == {1, 2}

CommodityPurchaseViewSet_perform_create(u, c, quantity) ==
    /\ u \in users
    /\ c \in DOMAIN commodities
    /\ Len(purchases) < MaxPurchases
    /\ LET total_zcoin == commodities[c].zcoin_value * quantity IN
       IF commodities[c].stock_quantity < quantity \/ Balance(u) < total_zcoin THEN
          /\ response' = Response("purchase_create", 400, "rejected")
          /\ UNCHANGED <<wallet, transactions, commodities, purchases>>
       ELSE
          /\ wallet' = wallet_save(get_or_create_for_user(wallet, u), u,
                                   Balance(u) - total_zcoin)
          /\ commodities' = [commodities EXCEPT ![c].stock_quantity = @ - quantity]
          /\ purchases' = Append(purchases,
                CommodityPurchase(u, c, quantity, total_zcoin, "pending"))
          /\ transactions' = Append(transactions,
                Transaction(u, "purchase", -total_zcoin, "Commodity purchase", NULL, NULL))
          /\ response' = Response("purchase_create", 201, "")
    /\ UNCHANGED <<users, payments, payment_id_seq, books, swaps, admin, mock_mode>>
    /\ UNCHANGED <<valuation, requests>>

\* mark_as_processing, mark_as_shipped, mark_as_delivered:
\* queryset.filter(status=from_status).update(status=to_status)
StatusMoves ==
    { <<"pending", "processing">>, <<"processing", "shipped">>, <<"shipped", "delivered">> }

CommodityPurchaseAdmin_mark_as(id, move) ==
    /\ id \in 1..Len(purchases)
    /\ purchases[id].status = move[1]
    /\ purchases' = [purchases EXCEPT ![id].status = move[2]]
    /\ response' = Response("admin", 200, "")
    /\ UNCHANGED <<users, wallet, transactions, payments, payment_id_seq, books, swaps,
                   admin, mock_mode, commodities>>
    /\ UNCHANGED <<valuation, requests>>

\* The description of a refund row: its wording and the commodity's name
RefundDescription(wording, c) == wording \o ": " \o commodities[c].name

\* "Cancel & Refund", inside transaction.atomic()
CommodityPurchaseAdmin_mark_as_cancelled(id) ==
    /\ id \in 1..Len(purchases)
    /\ purchases[id].status \in {"pending", "processing"}
    /\ LET purchase == purchases[id]
           u == purchase.user
           w == get_or_create_for_user(wallet, u)
       IN /\ wallet' = wallet_save(w, u, w[u] + purchase.total_zcoin)
          /\ commodities' = [commodities EXCEPT
                               ![purchase.commodity].stock_quantity = @ + purchase.quantity]
          /\ purchases' = [purchases EXCEPT ![id].status = "cancelled"]
          /\ transactions' = Append(transactions,
                Transaction(u, "refund", purchase.total_zcoin,
                            RefundDescription("Commodity purchase cancelled",
                                              purchase.commodity), NULL, NULL))
    /\ response' = Response("admin", 200, "")
    /\ UNCHANGED <<users, payments, payment_id_seq, books, swaps, admin, mock_mode>>
    /\ UNCHANGED <<valuation, requests>>

\* "Refund ZCoin", inside transaction.atomic(): skipped when a row of the user
\* already contains "Commodity refund: <name>"
CommodityPurchaseAdmin_refund_purchase(id) ==
    /\ id \in 1..Len(purchases)
    /\ purchases[id].status \in {"delivered", "cancelled"}
    /\ LET purchase == purchases[id]
           u == purchase.user
           existing_refunds ==
              Cardinality({ i \in 1..Len(transactions) :
                  /\ transactions[i].user = u
                  /\ transactions[i].description =
                        RefundDescription("Commodity refund", purchase.commodity) })
           w == get_or_create_for_user(wallet, u)
       IN IF existing_refunds = 0 THEN
             /\ wallet' = wallet_save(w, u, w[u] + purchase.total_zcoin)
             /\ transactions' = Append(transactions,
                   Transaction(u, "refund", purchase.total_zcoin,
                               RefundDescription("Commodity refund", purchase.commodity),
                               NULL, NULL))
          ELSE UNCHANGED <<wallet, transactions>>
    /\ response' = Response("admin", 200, "")
    /\ UNCHANGED <<users, payments, payment_id_seq, books, swaps, admin, mock_mode,
                   commodities, purchases>>
    /\ UNCHANGED <<valuation, requests>>

\* The change form: status is a read-only field, so 'status' is never in
\* form.changed_data and the restock-and-refund branch is skipped; the
\* editable quantity is saved.
CommodityPurchaseAdmin_save_model(id, quantity) ==
    /\ id \in 1..Len(purchases)
    /\ purchases' = [purchases EXCEPT ![id].quantity = quantity]
    /\ response' = Response("admin", 200, "")
    /\ UNCHANGED <<users, wallet, transactions, payments, payment_id_seq, books, swaps,
                   admin, mock_mode, commodities>>
    /\ UNCHANGED <<valuation, requests>>

-----------------------------------------------------------------------------
(* verify() as a call that returns or raises.  Python evaluation is an      *)
(* outcome: a returned value or a raised exception class; a try statement   *)
(* turns the classes its except clauses name into returned values.          *)

Raise(exc) == [raised |-> TRUE, exc |-> exc, value |-> <<>>]

Return(v) == [raised |-> FALSE, exc |-> "", value |-> v]

\* The classes `except requests.RequestException` catches (JSONDecodeError is
\* what Response.json() raises in requests >= 2.27, ValueError before)
RequestExceptions == {"ConnectionError", "Timeout", "JSONDecodeError"}

\* What session.get() can raise: a network error, a timeout, anything else
GetExceptions == {"ConnectionError", "Timeout", "Exception"}

VerifierReferences == {"ft24ab", "FT24AB"}

AccountSuffixes == {"90172", "11111"}

\* TelebirrVerifier.verify, the try statement without its except clauses
telebirr_try(http, exc) ==
    IF http.raises THEN Raise(exc)
    ELSE IF http.status_code # 200 THEN Return(<<>>)
    ELSE IF _is_valid_receipt(http.page[1]) THEN Return(http.page)
    ELSE Return(<<>>)

\* A verify() that fetches the receipt page whatever mock_mode is
TelebirrVerifier_outcome_live(mock, reference, http, exc) ==
    LET o == telebirr_try(http, exc) IN
    IF ~o.raised THEN o ELSE Return(<<>>)

\* TelebirrVerifier.verify: Return(<<receipt>>), Return(<<>>) for None, or Raise
TelebirrVerifier_outcome(mock, reference, http, exc) ==
    IF mock THEN Return(<< _mock_verify(reference) >>)
    ELSE LET o == telebirr_try(http, exc) IN
         IF ~o.raised THEN o
         ELSE IF o.exc \in RequestExceptions THEN Return(<<>>)
         ELSE Return(<<>>)

AbyssiniaReceipt(success, payer_name, amount, reference, error) ==
    [success |-> success, payer_name |-> payer_name, amount |-> amount,
     reference |-> reference, error |-> error]

Failure(error) == AbyssiniaReceipt(FALSE, "", 0, "", error)

\* A JSON member: absent, null, a number, or a string
Absent == [kind |-> "absent", s |-> "", amount |-> EmptyStr]

JsonNull == [kind |-> "null", s |-> "", amount |-> EmptyStr]

JsonNumber == [kind |-> "number", s |-> "", amount |-> EmptyStr]

Str(s) == [kind |-> "str", s |-> s, amount |-> EmptyStr]

\* A string member holding an amount text
AmountStr(a) == [kind |-> "str", s |-> "", amount |-> a]

\* dict.get(key, default) of a member
get(member, default) == IF member.kind = "absent" THEN default ELSE member

\* str.lower() on the status tokens
lower(s) == IF s = "SUCCESS" THEN "success" ELSE s

\* str.strip() on the payer names
strip_name(s) == IF s = " " THEN "" ELSE s

\* The first number in an amount text after removing the commas, else 0
amount_of(a) == IF a.kind = "birr" THEN a.v ELSE 0

BoATransactions ==
    { [payer_name |-> p, amount |-> a, reference |-> Str("FT24AB90172")] :
        p \in {Absent, JsonNull, Str(" "), Str("Yordanos")},
        a \in {Absent, JsonNumber, AmountStr(NoDigits), AmountStr(Birr(0)),
               AmountStr(Birr(25000))} }
    \cup { [payer_name |-> Str("Yordanos"), amount |-> AmountStr(Birr(25000)),
            reference |-> Absent] }

BoAHeaders ==
    { [kind |-> "absent", status |-> Absent, message |-> Absent],
      [kind |-> "null", status |-> Absent, message |-> Absent] }
    \cup { [kind |-> "dict", status |-> st, message |-> Absent] :
             st \in {Absent, JsonNull, Str("success"), Str("SUCCESS"), Str("failed")} }
    \cup { [kind |-> "dict", status |-> Str("failed"), message |-> m] :
             m \in {Str("No record"), Str(""), JsonNull} }

BoABodies ==
    { [kind |-> "absent", rows |-> <<>>], [kind |-> "list", rows |-> <<>>] }
    \cup { [kind |-> "list", rows |-> <<t>>] : t \in BoATransactions }

\* What Response.json() gives: it raises, or the document is not an object,
\* or it is an object with a header and a body
BoADocuments ==
    { [kind |-> "malformed", exc |-> e, header |-> <<>>, body |-> <<>>] :
        e \in {"JSONDecodeError", "ValueError"} }
    \cup { [kind |-> "array", exc |-> "", header |-> <<>>, body |-> <<>>] }
    \cup { [kind |-> "object", exc |-> "", header |-> <<h>>, body |-> <<b>>] :
             h \in BoAHeaders, b \in BoABodies }

\* What the slip API can answer: the GET raises, or a status and a document
BoAResponses ==
    { [raises |-> TRUE, exc |-> e, status_code |-> 0, doc |-> <<>>] : e \in GetExceptions }
    \cup { [raises |-> FALSE, exc |-> "", status_code |-> 404, doc |-> <<>>] }
    \cup { [raises |-> FALSE, exc |-> "", status_code |-> 200, doc |-> <<d>>] :
             d \in BoADocuments }

\* _parse_api_response, the try statement without its except clause
parse_try(data) ==
    LET body == data.body[1] IN
    IF body.kind = "absent" THEN Raise("KeyError")
    ELSE IF body.rows = <<>> THEN Raise("IndexError")
    ELSE LET txn == body.rows[1]
             amount_raw == get(txn.amount, AmountStr(Birr(0)))
             payer == get(txn.payer_name, Str(""))
             ref == get(txn.reference, Str(""))
         IN
         IF amount_raw.kind # "str" THEN Raise("AttributeError")
         ELSE IF payer.kind # "str" THEN Raise("AttributeError")
         ELSE LET amount == amount_of(amount_raw.amount)
                  payer_name == strip_name(payer.s)
              IN
              IF payer_name # "" /\ amount > 0
              THEN Return(AbyssiniaReceipt(TRUE, payer_name, amount, ref.s, ""))
              ELSE Return(AbyssiniaReceipt(FALSE, payer_name, amount, ref.s,
                                           "Incomplete receipt data"))

_parse_api_response(data) ==
    LET o == parse_try(data) IN
    IF o.raised THEN Return(Failure("Invalid receipt format")) ELSE o

\* AbyssiniaVerifier.verify, the try statement without its except clauses
abyssinia_try(http) ==
    IF http.raises THEN Raise(http.exc)
    ELSE IF http.status_code # 200 THEN Return(Failure("Transaction not found"))
    ELSE LET data == http.doc[1] IN
         IF data.kind = "malformed" THEN Raise(data.exc)
         ELSE IF data.kind = "array" THEN Raise("AttributeError")
         ELSE LET header == data.header[1] IN
              IF header.kind = "null" THEN Raise("AttributeError")
              ELSE LET status == get(header.status, Str("")) IN
                   IF status.kind # "str" THEN Raise("AttributeError")
                   ELSE IF lower(status.s) # "success"
                   THEN Return(Failure(get(header.message, Str("Invalid transaction")).s))
                   ELSE _parse_api_response(data)

AbyssiniaVerifier_mock_verify(reference, account_suffix) ==
    AbyssiniaReceipt(TRUE, "Yordanos Tesfaye", 25000,
                     upper(reference) \o account_suffix, "")

\* A verify() whose try statement catches only requests.RequestException
AbyssiniaVerifier_verify_network_only(mock, reference, account_suffix, http) ==
    IF mock THEN Return(AbyssiniaVerifier_mock_verify(reference, account_suffix))
    ELSE LET o == abyssinia_try(http) IN
         IF o.raised /\ o.exc \in RequestExceptions
         THEN Return(Failure("Network timeout")) ELSE o

AbyssiniaVerifier_verify(mock, reference, account_suffix, http) ==
    IF mock THEN Return(AbyssiniaVerifier_mock_verify(reference, account_suffix))
    ELSE LET o == abyssinia_try(http) IN
         IF ~o.raised THEN o
         ELSE IF o.exc \in RequestExceptions THEN Return(Failure("Network timeout"))
         ELSE Return(Failure("Verification failed"))

\* A caller of verify(): what it passed, what the provider did, what it got
VerifierCall(verifier, reference, account_suffix, http, exc, outcome) ==
    [op |-> verifier, mock |-> mock_mode, reference |-> reference,
     account_suffix |-> account_suffix, http |-> http, exc |-> exc,
     outcome |-> outcome]

TelebirrVerifier_call(reference, http, exc) ==
    /\ response' = VerifierCall("TelebirrVerifier.verify", reference, "", http, exc,
                                TelebirrVerifier_outcome(mock_mode, reference, http, exc))
    /\ UNCHANGED <<users, wallet, transactions, payments, payment_id_seq, books,
                   swaps, admin, mock_mode, commodities, purchases>>
    /\ UNCHANGED <<valuation, requests>>

AbyssiniaVerifier_call(reference, account_suffix, http) ==
    /\ response' = VerifierCall("AbyssiniaVerifier.verify", reference, account_suffix, http,
                                http.exc,
                                AbyssiniaVerifier_verify(mock_mode, reference,
                                                         account_suffix, http))
    /\ UNCHANGED <<users, wallet, transactions, payments, payment_id_seq, books,
                   swaps, admin, mock_mode, commodities, purchases>>
    /\ UNCHANGED <<valuation, requests>>

-----------------------------------------------------------------------------
(* The valuation of a book: ZCoinCalculator.calculate_zcoin with the row of  *)
(* ZCoinCalculatorSettings and the rows of ZCoinCalculationLog.  Money, the  *)
(* multipliers and the conversion rate are in hundredths; a product of two   *)
(* of them, and a manual override value, is in ten-thousandths.              *)

\* models.py: the defaults of ZCoinCalculatorSettings
DefaultSettings ==
    [classics_base |-> 3000, nonfiction_base |-> 2500, fiction_base |-> 2000,
     contemporary_base |-> 1500, academic_base |-> 3500, children_base |-> 1800,
     reference_base |-> 4000,
     excellent_multiplier |-> 150, good_multiplier |-> 100,
     fair_multiplier |-> 70, poor_multiplier |-> 40,
     hardcover_bonus |-> 1000, dust_jacket_bonus |-> 1500, no_cover_penalty |-> -500,
     has_images_bonus |-> 500, has_original_dust_jacket |-> 800,
     is_first_edition_bonus |-> 2000, is_signed_bonus |-> 2500,
     min_zcoin |-> 500, max_zcoin |-> 20000,
     zcoin_to_birr_rate |-> 10]

\* A figure in ten-thousandths cut to hundredths by dropping the rest
quantize_down(x) ==
    IF x >= 0 THEN x \div 100 ELSE -((-x) \div 100)

\* Decimal.quantize(Decimal('0.01'), rounding=ROUND_HALF_UP): a figure in
\* ten-thousandths to hundredths, ties away from zero
quantize_half_up(x) ==
    IF x >= 0 THEN (x + 50) \div 100 ELSE -((-x + 50) \div 100)

\* What a DecimalField(decimal_places=2) stores of a figure in ten-thousandths:
\* the database layer quantizes in the default context, ties to even
format_number(x) ==
    LET a == IF x >= 0 THEN x ELSE -x
        q == a \div 100
        r == a % 100
        n == IF r > 50 \/ (r = 50 /\ q % 2 = 1) THEN q + 1 ELSE q
    IN  IF x >= 0 THEN n ELSE -n

\* manual_zcoin=None, and manual_zcoin=v for v in ten-thousandths
None == << >>

Manual(v) == << v >>

\* The arguments of one call
Valuation_args(category, condition, cover_type, has_images, has_dust_jacket, is_first_edition, is_signed, manual_zcoin) ==
    [category |-> category, condition |-> condition, cover_type |-> cover_type,
     has_images |-> has_images, has_dust_jacket |-> has_dust_jacket,
     is_first_edition |-> is_first_edition, is_signed |-> is_signed,
     manual_zcoin |-> manual_zcoin]

\* A lookup of the base value without the default of dict.get: an unknown
\* category has no base value
base_values_no_default(settings, category) ==
    CASE category = "classics" -> settings.classics_base
      [] category = "non-fiction" -> settings.nonfiction_base
      [] category = "fiction" -> settings.fiction_base
      [] category = "contemporary" -> settings.contemporary_base
      [] category = "academic" -> settings.academic_base
      [] category = "children" -> settings.children_base
      [] category = "reference" -> settings.reference_base
      [] OTHER -> 0

\* base_values.get(category, settings.contemporary_base)
base_values(settings, category) ==
    CASE category = "classics" -> settings.classics_base
      [] category = "non-fiction" -> settings.nonfiction_base
      [] category = "fiction" -> settings.fiction_base
      [] category = "contemporary" -> settings.contemporary_base
      [] category = "academic" -> settings.academic_base
      [] category = "children" -> settings.children_base
      [] category = "reference" -> settings.reference_base
      [] OTHER -> settings.contemporary_base

\* condition_multipliers.get(condition, settings.good_multiplier)
condition_multipliers(settings, condition) ==
    CASE condition = "excellent" -> settings.excellent_multiplier
      [] condition = "good" -> settings.good_multiplier
      [] condition = "fair" -> settings.fair_multiplier
      [] condition = "poor" -> settings.poor_multiplier
      [] OTHER -> settings.good_multiplier

\* The bonuses of the cover type and of the four features
bonuses_of(settings, args) ==
    (CASE args.cover_type = "hardcover" -> settings.hardcover_bonus
       [] args.cover_type = "dust_jacket" -> settings.dust_jacket_bonus
       [] args.cover_type = "no_cover" -> settings.no_cover_penalty
       [] OTHER -> 0)
    + (IF args.has_images THEN settings.has_images_bonus ELSE 0)
    + (IF args.has_dust_jacket THEN settings.has_original_dust_jacket ELSE 0)
    + (IF args.is_first_edition THEN settings.is_first_edition_bonus ELSE 0)
    + (IF args.is_signed THEN settings.is_signed_bonus ELSE 0)

max2(a, b) == IF a >= b THEN a ELSE b

min2(a, b) == IF a <= b THEN a ELSE b

\* The body of calculate_zcoin on a settings row read from the table: the
\* figures it logs and returns
ZCoinCalculation(settings, args) ==
    LET base_value == base_values(settings, args.category)
        condition_multiplier == condition_multipliers(settings, args.condition)
        bonuses == bonuses_of(settings, args)
        computed == base_value * condition_multiplier + bonuses * 100
        clamped == max2(settings.min_zcoin * 100,
                        min2(settings.max_zcoin * 100, computed))
        manual_override == args.manual_zcoin # None
        final == IF manual_override THEN args.manual_zcoin[1] ELSE clamped
        \* "calculated_zcoin = final_zcoin  # For logging purposes"
        calculated == IF manual_override THEN final ELSE computed
        final_zcoin == quantize_half_up(final)
        price_birr == quantize_half_up(final_zcoin * settings.zcoin_to_birr_rate)
    IN  [args |-> args,
         base_value |-> base_value,
         condition_multiplier |-> condition_multiplier,
         bonuses |-> quantize_half_up(bonuses * 100),
         calculated_zcoin |-> quantize_half_up(calculated),
         final_zcoin |-> final_zcoin,
         price_birr |-> price_birr,
         manual_override |-> manual_override,
         min_zcoin |-> settings.min_zcoin,
         max_zcoin |-> settings.max_zcoin]

\* ZCoinCalculationLog.objects.create(...): the row as the table holds it
ZCoinCalculationLog(c) ==
    [args |-> c.args,
     base_value |-> c.base_value,
     condition_multiplier |-> c.condition_multiplier,
     bonuses |-> c.bonuses,
     calculated_zcoin |-> c.calculated_zcoin,
     final_zcoin |-> c.final_zcoin,
     manual_override |-> c.manual_override,
     manual_zcoin |-> IF c.manual_override
                      THEN Manual(format_number(c.args.manual_zcoin[1])) ELSE None,
     manual_price_birr |-> IF c.manual_override THEN Manual(c.price_birr) ELSE None]

\* The dictionary a call returns
Valuation_response(args, c, calculation_id) ==
    [op |-> "calculate_zcoin", args |-> args, raised |-> "",
     zcoin |-> c.final_zcoin, price_birr |-> c.price_birr,
     base_value |-> c.base_value, condition_multiplier |-> c.condition_multiplier,
     bonuses |-> c.bonuses, calculated_zcoin |-> c.calculated_zcoin,
     is_manual |-> c.manual_override,
     min_zcoin |-> c.min_zcoin, max_zcoin |-> c.max_zcoin,
     calculation_id |-> calculation_id]

\* A calculator that keeps the settings it was first given instead of reading
\* the row at every call
ZCoinCalculator_calculate_zcoin_cached(args) ==
    /\ zcoin_settings # << >>
    /\ LET c == ZCoinCalculation(DefaultSettings, args) IN
         /\ calculation_log' = Append(calculation_log, ZCoinCalculationLog(c))
         /\ zcoin_settings' = zcoin_settings
         /\ response' = Valuation_response(args, c, Len(calculation_log) + 1)
    /\ UNCHANGED <<users, wallet, transactions, payments, payment_id_seq, books,
                   swaps, admin, mock_mode, commodities, purchases, requests>>

\* ZCoinCalculator.calculate_zcoin.  get_active_settings() is
\* get_or_create(pk=1): on an empty table it inserts the row and hands back
\* the instance it built, whose fields are the float defaults of the model,
\* and float + Decimal raises TypeError at "calculated_zcoin += bonuses" (or
\* at the first "bonuses +=") after the row is written and before the log is.
ZCoinCalculator_calculate_zcoin(args) ==
    /\ IF zcoin_settings = << >>
       THEN /\ zcoin_settings' = << DefaultSettings >>
            /\ calculation_log' = calculation_log
            /\ response' = [op |-> "calculate_zcoin", args |-> args,
                             raised |-> "TypeError"]
       ELSE LET c == ZCoinCalculation(zcoin_settings[1], args) IN
            /\ calculation_log' = Append(calculation_log, ZCoinCalculationLog(c))
            /\ zcoin_settings' = zcoin_settings
            /\ response' = Valuation_response(args, c, Len(calculation_log) + 1)
    /\ UNCHANGED <<users, wallet, transactions, payments, payment_id_seq, books,
                   swaps, admin, mock_mode, commodities, purchases, requests>>

\* ZCoinCalculatorSettingsAdmin: the add form on an empty table and the change
\* form afterwards save the row with one field set to a new value
ZCoinCalculatorSettingsAdmin_save(field, value) ==
    /\ zcoin_settings' =
          << [ (IF zcoin_settings = << >> THEN DefaultSettings ELSE zcoin_settings[1])
               EXCEPT ![field] = value ] >>
    /\ response' = Response("settings_save", 200, "")
    /\ UNCHANGED <<users, wallet, transactions, payments, payment_id_seq, books,
                   swaps, admin, mock_mode, commodities, purchases, calculation_log,
                   requests>>

-----------------------------------------------------------------------------
(* Specifications.  The requests of the payment pipeline and the operations *)
(* of the ledger are explored separately; Spec runs both.                   *)

\* The users whose requests to the Payment endpoints are explored; they
\* address every Payment id, their own and the other user's.
ViewSetUsers == {"u1"}

\* The payment pipeline: registration, verification, the Payment endpoints
NextPayments ==
    \/ \E u \in UserIds : MayRegister(u) /\ UserRegistrationView_post(u)
    \/ \E u \in UserIds, raw \in RawReferences, r \in TopUpRequests :
          PaymentVerificationView_post(u, raw, r[1], r[2])
    \/ \E u \in ViewSetUsers, raw \in RawReferences, p \in {1, 2} :
          PaymentViewSet_perform_create(u, raw, p)
    \/ \E u \in ViewSetUsers, id \in 1..MaxPayments, raw \in RawReferences :
          PaymentViewSet_update(u, id, raw)
    \/ \E u \in ViewSetUsers, id \in 1..MaxPayments : PaymentViewSet_destroy(u, id)

SpecPayments == Init /\ [][NextPayments]_vars

\* The ledger as shipped (mock_mode=True): top-ups of 150 Birr, books, swaps
\* and the admin's wallet actions
InitLedger == Init /\ mock_mode = TRUE

NextLedger ==
    \/ \E u \in UserIds : MayRegister(u) /\ UserRegistrationView_post(u)
    \/ \E u \in UserIds, raw \in {"R1", "R2"} :
          PaymentVerificationView_post(u, raw, NULL, Num(15000))
    \/ \E u \in UserIds, z \in BookZcoinValues : BookViewSet_perform_create(u, z)
    \/ \E b \in 1..MaxBooks : BookAdmin_review(b)
    \/ \E u \in UserIds, b \in BookInputs, g \in GenreInputs, c \in ConditionInputs :
          SwapRequestViewSet_perform_create(u, b, g, c)
    \/ \E u \in UserIds : WalletAdmin_add_zcoin(u)
    \/ \E u \in UserIds : WalletAdmin_deduct_zcoin(u)
    \/ \E b \in 1..MaxBooks : BookAdmin_approve_books(b)
    \/ \E id \in 1..MaxTx : SwapRequestAdmin_approve_swaps(id)

SpecLedger == InitLedger /\ [][NextLedger]_vars

\* Credits and debits of two users side by side: top-ups, swaps of the books
\* u1 lists without a value, the credit for a listed book, the refund of an
\* approved swap, the admin's adjustments
NextWallets ==
    \/ \E u \in UserIds : MayRegister(u) /\ UserRegistrationView_post(u)
    \/ \E u \in UserIds : PaymentVerificationView_post(u, "R1", NULL, Num(15000))
    \/ BookViewSet_perform_create("u1", 0)
    \/ \E b \in 1..MaxBooks : BookAdmin_review(b)
    \/ \E u \in UserIds, b \in 1..MaxBooks :
          SwapRequestViewSet_perform_create(u, b, "fiction", "good")
    \/ \E u \in UserIds : WalletAdmin_add_zcoin(u)
    \/ \E u \in UserIds : WalletAdmin_deduct_zcoin(u)
    \/ \E b \in 1..MaxBooks : BookAdmin_approve_books(b)
    \/ \E id \in 1..MaxTx : SwapRequestAdmin_approve_swaps(id)

SpecWallets == InitLedger /\ [][NextWallets]_vars

\* The top-up flow alone: registration, the quote, the verification
NextTopUp ==
    \/ \E u \in UserIds : MayRegister(u) /\ UserRegistrationView_post(u)
    \/ \E u \in UserIds, r \in QuoteRequests : CreatePaymentView_post(u, r[1], r[2])
    \/ \E u \in UserIds, raw \in RawReferences, r \in TopUpRequests :
          PaymentVerificationView_post(u, raw, r[1], r[2])

SpecTopUp == Init /\ [][NextTopUp]_vars

\* Swaps of listed books against the user's own book: the admin grants
\* 100 ZCoin, users list books requiring 60 ZCoin or carrying no value, the
\* books offered in exchange are valued 80 (classics, excellent) or 30
\* (fiction, poor)
SwapBookValues == {0, 6000}

OfferedBooks == { <<"classics", "excellent">>, <<"fiction", "poor">> }

NextSwap ==
    \/ \E u \in UserIds : MayRegister(u) /\ UserRegistrationView_post(u)
    \/ \E u \in UserIds : WalletAdmin_add_zcoin(u)
    \/ \E u \in UserIds, z \in SwapBookValues : BookViewSet_perform_create(u, z)
    \/ \E b \in 1..MaxBooks : BookAdmin_review(b)
    \/ \E b \in 1..MaxBooks : BookAdmin_approve_books(b)
    \/ \E u \in UserIds, b \in 1..MaxBooks, o \in OfferedBooks :
          SwapRequestViewSet_perform_create(u, b, o[1], o[2])
    \/ \E id \in 1..MaxTx : SwapRequestAdmin_approve_swaps(id)

SpecSwap == InitLedger /\ [][NextSwap]_vars

\* The shop: a top-up of 150 Birr, purchases of the seeded commodity, the
\* admin's actions on the purchases
NextPurchases ==
    \/ \E u \in UserIds : MayRegister(u) /\ UserRegistrationView_post(u)
    \/ \E u \in UserIds : PaymentVerificationView_post(u, "R1", NULL, Num(15000))
    \/ \E u \in UserIds, q \in PurchaseQuantities :
          CommodityPurchaseViewSet_perform_create(u, 1, q)
    \/ \E id \in 1..MaxPurchases, move \in StatusMoves :
          CommodityPurchaseAdmin_mark_as(id, move)
    \/ \E id \in 1..MaxPurchases : CommodityPurchaseAdmin_mark_as_cancelled(id)
    \/ \E id \in 1..MaxPurchases : CommodityPurchaseAdmin_refund_purchase(id)
    \/ \E id \in 1..MaxPurchases, q \in PurchaseQuantities :
          CommodityPurchaseAdmin_save_model(id, q)

SpecPurchases == InitLedger /\ [][NextPurchases]_vars

\* The top-up as shipped (mock_mode=True) with the references and the custom
\* amounts of a test session: 50 Birr and the 150 Birr of the mock receipt
MockReferences == {"TEST001", "TEST002", " R1 "}

MockAmounts == {Num(5000), Num(15000)}

NextMock ==
    \/ \E u \in UserIds : MayRegister(u) /\ UserRegistrationView_post(u)
    \/ \E u \in UserIds, c \in MockAmounts : CreatePaymentView_post(u, NULL, c)
    \/ \E u \in UserIds, raw \in MockReferences, c \in MockAmounts :
          PaymentVerificationView_post(u, raw, NULL, c)

SpecMock == InitLedger /\ [][NextMock]_vars

\* The two verifiers called with every reference against every provider answer
NextVerifier ==
    \/ \E ref \in VerifierReferences, http \in HttpResponses :
          \E exc \in (IF http.raises THEN GetExceptions ELSE {""}) :
             TelebirrVerifier_call(ref, http, exc)
    \/ \E ref \in VerifierReferences, sfx \in AccountSuffixes, http \in BoAResponses :
          AbyssiniaVerifier_call(ref, sfx, http)

SpecVerifier == Init /\ [][NextVerifier]_vars

\* The valuation called with every category and condition, with the cover
\* types and feature flags, and with manual overrides inside and outside
\* [min_zcoin, max_zcoin] and between two hundredths
Categories ==
    {"classics", "non-fiction", "fiction", "contemporary", "academic", "children",
     "reference", "poetry"}

Conditions == {"excellent", "good", "fair", "poor", "mint"}

CoverTypes == {"", "hardcover", "dust_jacket", "no_cover", "paperback"}

FeatureFlags ==
    {<<FALSE, FALSE, FALSE, FALSE>>, <<TRUE, FALSE, FALSE, FALSE>>,
     <<FALSE, TRUE, FALSE, FALSE>>, <<FALSE, FALSE, TRUE, FALSE>>,
     <<FALSE, FALSE, FALSE, TRUE>>, <<TRUE, TRUE, TRUE, TRUE>>}

OverrideValues == {10000, 500000, 500050, 2500000}

ValuationInputs ==
    {Valuation_args(g, c, "", FALSE, FALSE, FALSE, FALSE, None) :
        g \in Categories, c \in Conditions}
    \cup {Valuation_args("fiction", "good", t, f[1], f[2], f[3], f[4], None) :
        t \in CoverTypes, f \in FeatureFlags}
    \cup {Valuation_args("fiction", "good", "", FALSE, FALSE, FALSE, FALSE, Manual(v)) :
        v \in OverrideValues}
    \cup {Valuation_args("classics", "excellent", "hardcover", TRUE, TRUE, TRUE, TRUE,
                         Manual(v)) : v \in OverrideValues}
    \cup {Valuation_args("contemporary", "poor", "no_cover", FALSE, FALSE, FALSE, FALSE,
                         Manual(v)) : v \in OverrideValues}

\* The changes of the settings: a lower ceiling, a higher floor, a floor above
\* the ceiling, another conversion rate
SettingsEdits ==
    {<<"max_zcoin", 4000>>, <<"min_zcoin", 3000>>, <<"min_zcoin", 25000>>,
     <<"zcoin_to_birr_rate", 25>>}

NextCalculator ==
    \/ \E args \in ValuationInputs :
          Len(calculation_log) < MaxValuations /\ ZCoinCalculator_calculate_zcoin(args)
    \/ \E e \in SettingsEdits : ZCoinCalculatorSettingsAdmin_save(e[1], e[2])

SpecCalculator == Init /\ [][NextCalculator]_vars

\* A sequence of valuations among changes of the conversion rate
LogInputs ==
    {Valuation_args("fiction", "good", "", FALSE, FALSE, FALSE, FALSE, None),
     Valuation_args("contemporary", "fair", "", FALSE, FALSE, FALSE, FALSE, None),
     Valuation_args("classics", "excellent", "hardcover", FALSE, FALSE, FALSE, TRUE, None),
     Valuation_args("fiction", "good", "", FALSE, FALSE, FALSE, FALSE, Manual(500050)),
     Valuation_args("poetry", "mint", "", FALSE, FALSE, FALSE, FALSE, None),
     Valuation_args("", "", "", FALSE, FALSE, FALSE, FALSE, None)}

RateEdits == {<<"zcoin_to_birr_rate", 25>>, <<"zcoin_to_birr_rate", 10>>}

NextCalcLog ==
    \/ \E args \in LogInputs :
          Len(calculation_log) < MaxLog /\ ZCoinCalculator_calculate_zcoin(args)
    \/ \E e \in RateEdits : ZCoinCalculatorSettingsAdmin_save(e[1], e[2])

SpecCalcLog == Init /\ [][NextCalcLog]_vars

\* Verification requests that overlap, on two references, with a custom amount
\* that matches the mock receipt and one that does not
ReplayReferences == {" R1 ", "R2"}

ReplayAmounts == {Num(15000), Num(4500)}

NextReplay ==
    \/ \E u \in UserIds : MayRegister(u) /\ UserRegistrationView_post(u)
    \/ \E u \in UserIds, raw \in ReplayReferences, c \in ReplayAmounts :
          Len(requests) < MaxInFlight
          /\ PaymentVerificationView_post_begin(u, raw, NULL, c)
    \/ \E i \in 1..MaxInFlight : PaymentVerificationView_post_finish(i)

SpecReplay == InitLedger /\ [][NextReplay]_vars

\* Verification requests of one user in mock and in live mode, with every end
\* a request can take: a blank reference, a used one, a custom amount that is
\* no decimal, no receipt, a receipt of another amount, a failed write, a
\* credit
NextOutcomes ==
    \/ UserRegistrationView_post("u1")
    \/ \E raw \in {" ", " R1 "}, c \in {Num(15000), Num(4500), BadAmount} :
          Len(requests) < MaxInFlight
          /\ PaymentVerificationView_post_begin("u1", raw, NULL, c)
    \/ \E i \in 1..MaxInFlight : PaymentVerificationView_post_finish(i)

SpecOutcomes == Init /\ [][NextOutcomes]_vars

\* A request handler runs to its return: the receipt call is bounded by
\* timeout=15 and nothing else in the view waits
SpecOutcomesFair ==
    SpecOutcomes /\ \A i \in 1..MaxInFlight : WF_vars(PaymentVerificationView_post_finish(i))

\* Approvals of the swaps of one user, for the seeded book and for the books
\* the user lists without a value, which are the swaps that get a refund
NextApprovals ==
    \/ UserRegistrationView_post("u1")
    \/ BookViewSet_perform_create("u1", 0)
    \/ \E b \in 1..MaxBooks : BookAdmin_review(b)
    \/ \E b \in 1..MaxBooks : BookAdmin_approve_books(b)
    \/ \E b \in 1..MaxBooks, o \in OfferedBooks :
          SwapRequestViewSet_perform_create("u1", b, o[1], o[2])
    \/ \E id \in 1..MaxTx : SwapRequestAdmin_approve_swaps(id)

SpecApprovals == InitLedger /\ [][NextApprovals]_vars

\* Swap creations of two users that overlap, for the seeded book, for a book
\* that does not exist and with a genre the serializer refuses; a top-up,
\* whose atomic block writes and so commits when no other block is open
NextClaim ==
    \/ \E u \in UserIds : MayRegister(u) /\ UserRegistrationView_post(u)
    \/ \E u \in UserIds :
          requests = << >> /\ PaymentVerificationView_post(u, "R1", NULL, Num(15000))
    \/ \E u \in UserIds, b \in BookInputs, g \in GenreInputs, c \in ConditionInputs :
          Len(requests) < MaxInFlight
          /\ SwapRequestViewSet_perform_create_begin(u, b, g, c)
    \/ \E i \in 1..MaxInFlight : SwapRequestViewSet_perform_create_commit(i)
    \/ \E i \in 1..MaxInFlight : SwapRequestViewSet_perform_create_locked(i)

SpecClaim == InitLedger /\ [][NextClaim]_vars

\* Python's "a or b" on strings: a when a is non-empty, else b
or(a, b) == IF a # "" THEN a ELSE b

\* A receipt page, as what each lookup of _scrape_receipt_html finds in it
\* ("" when the lookup finds nothing): find_next_td of the label, the regex
\* fallbacks on the raw html, and for the receipt number the regex on the
\* receipttableTd2 cell and the first text node holding ten or more capitals
\* and digits, stripped.  The regex on the cell ignores case and takes a
\* number of any length, the text-node search does neither, so each of the
\* two can match where the other does not.
ReceiptPages ==
    [payer_name_td : {"", "Abebe"}, payer_name_re : {"", "Kebede"},
     settled_amount_td : {"", "45.00 Birr"}, settled_amount_re1 : {"", "46.00 Birr"},
     settled_amount_re2 : {"", "47.00 Birr"},
     receipt_no_re : {"", "CE1234"}, receipt_no_text : {"", "CE00001234"},
     transaction_status_td : {"", "Completed"}, transaction_status_re : {"", "Failed"}]

\* receipt_no is "A or B.strip() if C else ''", which Python reads as
\* "(A or B.strip()) if C else ''" with C the text-node search
_scrape_receipt_html(page) ==
    [payer_name |-> or(page.payer_name_td, page.payer_name_re),
     settled_amount |-> or(or(page.settled_amount_td, page.settled_amount_re1),
                           page.settled_amount_re2),
     receipt_no |-> IF page.receipt_no_text # ""
                    THEN or(page.receipt_no_re, page.receipt_no_text)
                    ELSE "",
     transaction_status |-> or(page.transaction_status_td, page.transaction_status_re)]

\* The scraping of one page fetched in live mode
TelebirrVerifier_scrape_receipt_html(page) ==
    /\ response' = [op |-> "scrape", page |-> page,
                     receipt |-> _scrape_receipt_html(page)]
    /\ UNCHANGED <<users, wallet, transactions, payments, payment_id_seq, books,
                   swaps, admin, mock_mode, commodities, purchases, valuation,
                   requests>>

NextScrape == \E page \in ReceiptPages : TelebirrVerifier_scrape_receipt_html(page)

SpecScrape == Init /\ [][NextScrape]_vars

\* One valuation (fiction, good, hardcover) repeated among changes of each kind
\* of setting it reads: base value, multiplier, bonus, ceiling, rate
NextSettings ==
    \/ Len(calculation_log) < MaxLog
       /\ ZCoinCalculator_calculate_zcoin(
             Valuation_args("fiction", "good", "hardcover", FALSE, FALSE, FALSE, FALSE, None))
    \/ \E e \in {<<"fiction_base", 2200>>, <<"good_multiplier", 110>>,
                  <<"hardcover_bonus", 1200>>, <<"max_zcoin", 2500>>,
                  <<"zcoin_to_birr_rate", 25>>} :
          ZCoinCalculatorSettingsAdmin_save(e[1], e[2])

SpecSettings == Init /\ [][NextSettings]_vars

Next ==
    NextPayments \/ NextLedger \/ NextWallets \/ NextSwap \/ NextPurchases
    \/ NextTopUp \/ NextMock
    \/ NextVerifier \/ NextCalculator \/ NextCalcLog \/ NextReplay
    \/ NextSettings \/ NextScrape \/ NextOutcomes \/ NextApprovals
    \/ NextClaim

Spec == Init /\ [][Next]_vars

-----------------------------------------------------------------------------
(* Properties *)

\* The top-up rows of the log that name a reference
Credits(reference_number) ==
    { i \in 1..Len(transactions) :
        /\ transactions[i].transaction_type = "topup"
        /\ transactions[i].description = reference_number }

References == { strip(raw) : raw \in RawReferences } \ {""}

\* C1: for every user the wallet balance equals the sum of the amounts of
\* the user's Transaction rows.  Stated for the states in which no admin
\* action is between its statements.
C1_BalanceEqualsTransactionSum ==
    admin.pc = "idle" =>
        \A u \in DOMAIN wallet : wallet[u] = SumAmounts(transactions, u)

\* C2: no wallet balance is ever negative.
C2_BalanceNeverNegative == \A u \in DOMAIN wallet : wallet[u] >= 0

\* C3: once a verification request for a reference has credited a wallet,
\* every later verification request carrying that reference, from any user
\* and with any package or custom amount, is rejected and leaves wallets,
\* Transaction log and Payment store unchanged.
C3_ReplayRejected ==
    [][\A u \in UserIds, raw \in RawReferences, r \in TopUpRequests :
          (Credits(strip(raw)) # {} /\ PaymentVerificationView_post(u, raw, r[1], r[2]))
            => (response'.code # 200 /\ UNCHANGED ledger)]_vars

\* C4: no reference is credited to any wallet more than once.
C4_ReferenceCreditedAtMostOnce ==
    \A ref \in References : Cardinality(Credits(ref)) <= 1

\* C5: every Payment row is a verified payment with a 'topup' Transaction
\* linked to it, and every top-up made by payment verification is linked to
\* a Payment row.
C5_PaymentAndCreditTogether ==
    /\ \A p \in payments :
          /\ p.status = "verified"
          /\ \E i \in 1..Len(transactions) :
                /\ transactions[i].transaction_type = "topup"
                /\ transactions[i].related_payment = p.id
    /\ \A ref \in References : \A i \in Credits(ref) :
          \E p \in payments : p.id = transactions[i].related_payment

\* C6: a balance write applies its amount to the balance the wallet has at
\* the time of the write, so no concurrent update is lost.
C6_NoLostUpdate ==
    [][(admin.pc = "save" /\ admin'.pc = "log")
         => wallet'[admin.user] = wallet[admin.user] + admin.amount]_vars

\* The swap row a step created
NewSwap == swaps'[Len(swaps')]

\* C7: a swap is created only if the user's balance covers the ZCoin debited
\* for it; with a smaller balance nothing is written.
C7_InsufficientBalanceAborts ==
    [][Len(swaps') > Len(swaps) => Balance(NewSwap.user) >= NewSwap.calculated_zcoin]_vars

\* C8: a successful swap creation debits the wallet by exactly the requested
\* book's zcoin_value, appends one 'swap' Transaction of minus that amount
\* linked to the new SwapRequest, and marks the book unavailable.
C8_SwapDebitsRequiredZcoin ==
    [][Len(swaps') > Len(swaps) =>
         LET required_zcoin == books[NewSwap.requested_book].zcoin_value IN
           /\ wallet'[NewSwap.user] = Balance(NewSwap.user) - required_zcoin
           /\ transactions' = Append(transactions,
                 Transaction(NewSwap.user, "swap", -required_zcoin, "Swap",
                             Len(swaps'), NULL))
           /\ ~books'[NewSwap.requested_book].is_available]_vars

\* Some request of u carrying the reference can be credited
CanCredit(u, raw) ==
    ENABLED (\E retry \in TopUpRequests :
                /\ PaymentVerificationView_post(u, raw, retry[1], retry[2])
                /\ response'.code = 200)

\* The requests carrying the reference that reach the verifier
ReachVerifier(rows, raw) ==
    { r \in TopUpRequests : check_request(rows, strip(raw), r[1], r[2]).error = "" }

\* C9: a verification that fails at the verifier writes nothing: no Payment
\* row, no wallet change, no Transaction; the reference stays unused, and
\* after the failure a request with the same reference can still be
\* credited.  The failure response does not name the request, so the retry
\* is checked for every reference that reaches the verifier.
C9_FailedVerificationLeavesNothing ==
    /\ [][(response'.op = "verify" /\ response'.error = "not_found") =>
            /\ UNCHANGED ledger
            /\ \A raw \in RawReferences :
                  ReachVerifier(payments, raw) # {} =>
                    /\ ~reference_used(payments', strip(raw))
                    /\ ReachVerifier(payments', raw) = ReachVerifier(payments, raw)]_vars
    /\ []((response.op = "verify" /\ response.error = "not_found") =>
            \A u \in users, raw \in RawReferences :
               (ReachVerifier(payments, raw) # {} /\ payment_id_seq < MaxPayments /\ TxRoom)
                 => CanCredit(u, raw))

C9_Witness == response.op = "verify" /\ response.error = "not_found"

\* The band of the reconciliation: expected - 0.50 <= paid <= expected + 0.50
InBand(expected, paid) == expected - 50 <= paid /\ paid <= expected + 50

\* C10: a request is rejected for an amount mismatch only outside the band,
\* reporting both amounts and writing nothing, and a payment is credited
\* only with a paid amount inside the band.
C10_AmountReconciliation ==
    [][response'.op = "verify" =>
         /\ response'.error = "amount_mismatch" =>
               /\ ~InBand(response'.expected_amount, response'.received_amount)
               /\ UNCHANGED ledger
         /\ response'.code = 200 =>
               \E p \in payments' \ payments :
                  InBand(p.amount_birr, response'.received_amount)]_vars

\* A payment credited with the paid amount on the upper bound of the band
C10_Witness ==
    /\ response.op = "verify" /\ response.code = 200
    /\ \E p \in payments : p.amount_birr + 50 = response.received_amount

\* Price and ZCoin of request r both come from the package, or both from the
\* custom amount at 100 ZCoin per Birr
FromOneSource(r, amount_birr, zcoin_amount) ==
    IF r[1] # NULL
    THEN \E p \in CoinPackage :
            p.id = r[1] /\ amount_birr = p.price_birr /\ zcoin_amount = p.zcoin_amount
    ELSE r[2].kind = "num" /\ amount_birr = r[2].v /\ zcoin_amount = r[2].v * 100

\* C11: the expected amount and the ZCoin to credit of one request come from
\* the same source: from the package when one is selected, also when a
\* custom amount is sent with it, and from the custom amount otherwise; for
\* the credited Payment of a verification and for the quote of
\* CreatePaymentView.
C11_OneSourcePerRequest ==
    [][/\ (response'.op = "verify" /\ response'.code = 200) =>
            \A u \in users, raw \in RawReferences, r \in TopUpRequests :
               PaymentVerificationView_post(u, raw, r[1], r[2]) =>
                  \E p \in payments' \ payments :
                     /\ FromOneSource(r, p.amount_birr, p.zcoin_amount)
                     /\ response'.zcoin_amount = p.zcoin_amount
                     /\ wallet'[p.user] = Balance(p.user) + p.zcoin_amount
       /\ (response'.op = "create_payment" /\ response'.code = 200) =>
            \A u \in users, r \in QuoteRequests :
               CreatePaymentView_post(u, r[1], r[2]) =>
                  FromOneSource(r, response'.expected_amount, response'.zcoin_amount)]_vars

\* A package top-up was credited
C11_Witness ==
    /\ response.op = "verify" /\ response.code = 200
    /\ \E p \in payments : p.coin_package = 1 /\ p.zcoin_amount = response.zcoin_amount

\* The requests for a custom amount below 10 Birr
BelowFloor == { r \in TopUpRequests : r[1] = NULL /\ r[2].kind = "num" /\ r[2].v < 1000 }

\* C12: a verification request for a custom amount below 10 Birr is
\* rejected before the verifier is called, and writes nothing.
C12_FloorBeforeVerifier ==
    [][response'.op = "verify" =>
         \A r \in BelowFloor, u \in users, raw \in RawReferences :
            PaymentVerificationView_post(u, raw, r[1], r[2])
              => /\ response'.code = 400
                 /\ ~response'.verifier_called
                 /\ UNCHANGED ledger]_vars

C12_Witness == response.op = "verify" /\ response.error = "minimum_topup"

\* C14: when the atomic unit fails after verification and reconciliation
\* passed, the answer is the 500 'verified but failed to credit' error and
\* no Payment, balance or Transaction has changed; a request that passed
\* reconciliation is either credited or answered with that error.
C14_CreditFailureIsDistinct ==
    [][response'.op = "verify" =>
         /\ response'.error = "credit_failed" =>
               /\ response'.code = 500
               /\ response'.verifier_called
               /\ UNCHANGED ledger
         /\ (/\ response'.verifier_called
             /\ response'.error \notin {"not_found", "amount_mismatch", "unhandled"})
              => \/ response'.error = "credit_failed"
                 \/ /\ response'.code = 200
                    /\ payment_id_seq' = payment_id_seq + 1
                    /\ Len(transactions') = Len(transactions) + 1]_vars

C14_Witness == response.op = "verify" /\ response.error = "credit_failed"

-----------------------------------------------------------------------------
\* C13: whatever the receipt source does (network error, timeout, non-200
\* status, malformed body, missing critical field, rejection by the provider),
\* verify() of TelebirrVerifier and of AbyssiniaVerifier returns, and what it
\* returns for such an answer is a failure: None from TelebirrVerifier, a
\* receipt with success = False and a reason from AbyssiniaVerifier.
TelebirrFailed(http) ==
    \/ http.raises
    \/ http.status_code # 200
    \/ \E f \in {"receipt_no", "payer_name", "transaction_status"} : http.page[1][f] = ""
    \/ (http.page[1].settled_amount = EmptyStr /\ http.page[1].total_paid_amount = EmptyStr)

AbyssiniaFailed(http) ==
    \/ http.raises
    \/ http.status_code # 200
    \/ http.doc[1].kind # "object"
    \/ LET h == http.doc[1].header[1]
           b == http.doc[1].body[1]
       IN \/ h.kind # "dict"
          \/ h.status \notin {Str("success"), Str("SUCCESS")}
          \/ b.rows = <<>>
          \/ b.rows[1].payer_name \notin {Str("Yordanos")}
          \/ b.rows[1].amount \notin {AmountStr(Birr(25000))}

C13_VerifyNeverRaises ==
    /\ response.op = "TelebirrVerifier.verify" =>
          /\ ~response.outcome.raised
          /\ response.outcome.value =
                TelebirrVerifier_verify(response.mock, response.reference, response.http)
          /\ (~response.mock /\ TelebirrFailed(response.http)) =>
                response.outcome.value = <<>>
    /\ response.op = "AbyssiniaVerifier.verify" =>
          /\ ~response.outcome.raised
          /\ (~response.mock /\ AbyssiniaFailed(response.http)) =>
                ~response.outcome.value.success
          /\ (~response.mock /\ ~AbyssiniaFailed(response.http)) =>
                response.outcome.value.success

\* a malformed body answered with status 200 came back as a failure
C13_Witness ==
    /\ response.op = "AbyssiniaVerifier.verify"
    /\ ~response.mock
    /\ response.http.status_code = 200
    /\ response.http.doc[1].kind = "malformed"
    /\ response.http.doc[1].exc = "ValueError"
    /\ response.outcome = Return(Failure("Verification failed"))

-----------------------------------------------------------------------------
\* C15: get_or_create_for_user is idempotent.  For a user without a wallet it
\* adds one wallet with balance 0 and touches no other; for a user with a
\* wallet it returns the table as it is, whatever the balance; calling it
\* again changes nothing.  Every registered user has exactly one wallet, and
\* registration leaves the new user at balance 0 and the others as they were.
C15_GetOrCreateIdempotent ==
    /\ [](/\ DOMAIN wallet = users
          /\ \A u \in UserIds :
                LET w1 == get_or_create_for_user(wallet, u) IN
                /\ DOMAIN w1 = DOMAIN wallet \cup {u}
                /\ get_or_create_for_user(w1, u) = w1
                /\ \A x \in DOMAIN wallet : w1[x] = wallet[x]
                /\ u \notin DOMAIN wallet => w1[u] = 0)
    /\ [][\A u \in users' \ users :
             /\ wallet'[u] = 0
             /\ \A x \in users : wallet'[x] = wallet[x]]_vars

\* a user registered while another user's wallet already held a credit
C15_Witness ==
    /\ response.op = "register"
    /\ \E u, v \in users : wallet[u] > 0 /\ wallet[v] = 0

-----------------------------------------------------------------------------
\* C16: a step that changes the balance or the Transaction rows of one user
\* (a top-up, a swap creation, a refund, an admin adjustment, or one write of
\* an admin action that runs between the requests of others) leaves the
\* balance and the Transaction rows of every other user as they were.
RowsOf(txs, u) == SelectSeq(txs, LAMBDA t : t.user = u)

Touched(u) ==
    \/ u \in DOMAIN wallet /\ wallet'[u] # wallet[u]
    \/ RowsOf(transactions', u) # RowsOf(transactions, u)

C16_WalletsIndependent ==
    [][\A a \in users : Touched(a) => \A b \in users \ {a} : ~Touched(b)]_vars

\* the refund of a's swap has been written to a's wallet while b, who has
\* ledger rows of their own, is registered
C16_Witness ==
    \E a, b \in users :
       /\ a # b
       /\ admin.action = "approve_swaps" /\ admin.user = a /\ admin.pc = "log"
       /\ \E i, j \in 1..Len(transactions) :
             /\ transactions[i].user = a /\ transactions[i].transaction_type = "swap"
             /\ transactions[j].user = b

-----------------------------------------------------------------------------
\* C17: in mock mode a user with balance 0 and no ledger row who submits the
\* unused reference "TEST001" for a custom top-up of 50 Birr is credited
\* 50 x ZCOIN_PRICE_PER_BIRR with one 'topup' Transaction and one Payment row
\* keyed by "TEST001" (unless the write itself fails), and a request with
\* "TEST001" after that is rejected and changes nothing.
C17_MockTopUpEndToEnd ==
    [][\A u \in users :
          (mock_mode /\ PaymentVerificationView_post(u, "TEST001", NULL, Num(5000))) =>
             IF reference_used(payments, "TEST001")
             THEN response'.code # 200 /\ UNCHANGED ledger
             ELSE (wallet[u] = 0 /\ RowsOf(transactions, u) = <<>>) =>
                  \/ response'.error = "credit_failed"
                  \/ /\ response'.code = 200
                     /\ wallet'[u] = 5000 * ZCOIN_PRICE_PER_BIRR
                     /\ \E t \in {transactions'[Len(transactions')]} :
                           /\ transactions' = Append(transactions, t)
                           /\ t.user = u /\ t.transaction_type = "topup"
                           /\ t.amount = 5000 * ZCOIN_PRICE_PER_BIRR
                     /\ Cardinality({p \in payments' : p.reference_number = "TEST001"}) = 1
                     /\ Cardinality(payments') = Cardinality(payments) + 1]_vars

-----------------------------------------------------------------------------
\* The valuation of the book the user submits with a swap request
Valuation(swap) == calculate_zcoin(swap.user_book_genre, swap.user_book_condition)

Required(swap) == books[swap.requested_book].zcoin_value

\* The amounts of the Transaction rows that refer to swap i, oldest first
SwapRows(i) ==
    LET rows == SelectSeq(transactions, LAMBDA t : t.related_swap = i) IN
    [k \in 1..Len(rows) |-> <<rows[k].transaction_type, rows[k].amount>>]

\* C18: a user with balance 100 requests a book requiring 60 ZCoin and submits
\* a book valued 80 (classics, excellent): the swap is created, the balance
\* becomes 40 and one 'swap' row of -60 is written; approving that swap
\* schedules and, once the admin action is through, has written a refund of
\* 20 to the same user, so that the swap has the two rows 'swap' -60 and
\* 'refund' +20.
C18_Scenario(swap) == Valuation(swap) = 8000 /\ Required(swap) = 6000

C18_SwapScenario ==
    /\ [](\A i \in 1..Len(swaps) :
            (C18_Scenario(swaps[i]) /\ swaps[i].status = "approved" /\ admin.pc = "idle")
               => SwapRows(i) = << <<"swap", -6000>>, <<"refund", 2000>> >>)
    /\ [][/\ (Len(swaps') > Len(swaps) /\ C18_Scenario(NewSwap)
              /\ Balance(NewSwap.user) = 10000) =>
                 /\ wallet'[NewSwap.user] = 4000
                 /\ transactions' = Append(transactions,
                       Transaction(NewSwap.user, "swap", -6000, "Swap", Len(swaps'), NULL))
          /\ \A i \in 1..Len(swaps) :
                (C18_Scenario(swaps[i]) /\ swaps[i].status = "pending"
                 /\ swaps'[i].status = "approved" /\ wallet[swaps[i].user] = 4000) =>
                   /\ admin'.pc = "save" /\ admin'.user = swaps[i].user
                   /\ admin'.zcoin_balance = 6000]_vars

\* C19: approving a pending swap whose submitted-book valuation exceeds the
\* requested book's required ZCoin starts one refund of exactly the difference
\* to the swap's user (a wallet write followed by one 'refund' Transaction
\* that references the swap); when the valuation does not exceed the required
\* ZCoin the approval writes no balance and no Transaction.
C19_ApprovalRefundsDifference ==
    [][\A i \in 1..Len(swaps) :
          (swaps[i].status = "pending" /\ swaps'[i].status = "approved") =>
             LET diff == Valuation(swaps[i]) - Required(swaps[i]) IN
             IF diff > 0
             THEN admin' = [AdminStart("approve_swaps", swaps[i].user,
                                       wallet[swaps[i].user] + diff, diff)
                              EXCEPT !.swap = i]
             ELSE admin' = AdminIdle /\ UNCHANGED <<wallet, transactions>>]_vars

-----------------------------------------------------------------------------
\* C20: whatever the admin does with the purchases ("Cancel & Refund",
\* "Refund ZCoin", the change form), the ZCoin credited back to a user in
\* 'refund' rows never exceeds the total_zcoin of the purchases of that user:
\* no purchase is refunded twice.
PurchaseRefundDescriptions ==
    { RefundDescription(wording, c) :
        wording \in {"Commodity purchase cancelled", "Commodity refund"},
        c \in DOMAIN commodities }

RefundedTo(u) ==
    SumAmounts(SelectSeq(transactions,
                         LAMBDA t : /\ t.transaction_type = "refund"
                                    /\ t.description \in PurchaseRefundDescriptions), u)

RECURSIVE PurchasedBy(_, _)
PurchasedBy(ps, u) ==
    IF ps = <<>> THEN 0
    ELSE (IF Head(ps).user = u THEN Head(ps).total_zcoin ELSE 0) + PurchasedBy(Tail(ps), u)

C20_NoDoubleRefund == \A u \in users : RefundedTo(u) <= PurchasedBy(purchases, u)

-----------------------------------------------------------------------------
(* The valuation *)

\* The last request was a valuation call; it returned; the row it logged
Valued == response.op = "calculate_zcoin"

Returned == Valued /\ response.raised = ""

LoggedRow == calculation_log[response.calculation_id]

\* base x multiplier + bonuses of the answered call, in ten-thousandths, from
\* the settings row and the arguments
Computed ==
    base_values(zcoin_settings[1], response.args.category)
      * condition_multipliers(zcoin_settings[1], response.args.condition)
    + 100 * bonuses_of(zcoin_settings[1], response.args)

\* x is v (ten-thousandths) rounded to two decimals
RoundedOf(x, v) == 100 * x - v <= 50 /\ v - 100 * x <= 50

\* C21: a valuation call with a manual override v returns v rounded to two
\* decimals as the final ZCoin, whatever the category, condition, cover and
\* flags and whether or not v lies in [min_zcoin, max_zcoin], and its log row
\* has manual_override = true and the override value.
C21_ManualOverride ==
    (Valued /\ response.args.manual_zcoin # None) =>
        LET v == response.args.manual_zcoin[1] IN
        /\ response.raised = ""
        /\ response.zcoin = quantize_half_up(v)
        /\ response.is_manual
        /\ LoggedRow.manual_override
        /\ LoggedRow.final_zcoin = quantize_half_up(v)
        /\ LoggedRow.manual_zcoin # None
        /\ RoundedOf(LoggedRow.manual_zcoin[1], v)

\* C22: for an override call that returns, the calculated_zcoin returned and
\* the one stored in the log row equal base x multiplier + bonuses (rounded
\* half-up to two decimals); only the final figure is the override.
C22_ComputedFigureLogged ==
    (Returned /\ response.args.manual_zcoin # None) =>
        /\ response.calculated_zcoin = quantize_half_up(Computed)
        /\ LoggedRow.calculated_zcoin = quantize_half_up(Computed)

\* clamp(x, lo, hi) as max(lo, min(hi, x))
Clamp(x, lo, hi) == IF x > hi THEN (IF hi > lo THEN hi ELSE lo) ELSE (IF x > lo THEN x ELSE lo)

\* C23: a valuation call without override returns
\* clamp(base x multiplier + bonuses, min_zcoin, max_zcoin) rounded half-up to
\* two decimals; when min_zcoin <= max_zcoin the result lies in
\* [min_zcoin, max_zcoin]; fiction/good without cover and flags under the
\* default settings gives 20.00.
C23_ClampedValuation ==
    (Valued /\ response.args.manual_zcoin = None) =>
        LET settings == zcoin_settings[1] IN
        /\ response.raised = ""
        /\ response.zcoin =
              quantize_half_up(Clamp(Computed, 100 * settings.min_zcoin,
                                     100 * settings.max_zcoin))
        /\ settings.min_zcoin <= settings.max_zcoin =>
              (settings.min_zcoin <= response.zcoin
               /\ response.zcoin <= settings.max_zcoin)
        /\ (settings = DefaultSettings
            /\ response.args = Valuation_args("fiction", "good", "", FALSE, FALSE,
                                              FALSE, FALSE, None))
              => response.zcoin = 2000

\* C24: the price a valuation returns is the final ZCoin figure it returns
\* (after clamp or override, after rounding) times the conversion rate, rounded
\* half-up to two decimals, and is the manual price of the log row of an
\* override; fiction/good without bonuses under the default settings is priced
\* 20.00 x the rate.
C24_PriceFromFinal ==
    Returned =>
        LET rate == zcoin_settings[1].zcoin_to_birr_rate
            product == response.zcoin * rate
            up == IF product % 100 >= 50 THEN product \div 100 + 1 ELSE product \div 100
        IN  /\ response.zcoin >= 0
            /\ response.price_birr = up
            /\ response.is_manual => LoggedRow.manual_price_birr = Manual(up)
            /\ (zcoin_settings[1] = DefaultSettings
                /\ response.args = Valuation_args("fiction", "good", "", FALSE, FALSE,
                                                  FALSE, FALSE, None))
                  => response.price_birr = 200

\* A price that is a tie between two hundredths (10.50 x 0.25), and the price
\* of an override
C24_Witness ==
    /\ Len(calculation_log) = 2
    /\ Returned
    /\ response.zcoin = 1050
    /\ zcoin_settings[1].zcoin_to_birr_rate = 25
    /\ response.price_birr = 263
    /\ calculation_log[1].manual_override

\* C25: every valuation call appends exactly one row to the log, holding its
\* arguments, base value, multiplier, bonuses, computed and final figures and
\* the override flag, and leaves the rows before it as they were; a change of
\* the settings leaves the log as it was.
C25_LogAppendOnly ==
    [][ /\ response'.op = "calculate_zcoin" =>
             /\ Len(calculation_log') = Len(calculation_log) + 1
             /\ SubSeq(calculation_log', 1, Len(calculation_log)) = calculation_log
             /\ LET row == calculation_log'[Len(calculation_log')] IN
                /\ row.args = response'.args
                /\ row.base_value = response'.base_value
                /\ row.condition_multiplier = response'.condition_multiplier
                /\ row.bonuses = response'.bonuses
                /\ row.calculated_zcoin = response'.calculated_zcoin
                /\ row.final_zcoin = response'.zcoin
                /\ row.manual_override = response'.is_manual
        /\ response'.op = "settings_save" => calculation_log' = calculation_log
      ]_vars

-----------------------------------------------------------------------------
(* The verifiers: validity of a receipt, mock mode *)

\* The four fields of a scraped receipt the validity test reads are non-empty
Complete(receipt) ==
    /\ receipt.receipt_no # ""
    /\ receipt.payer_name # ""
    /\ (receipt.settled_amount # EmptyStr \/ receipt.total_paid_amount # EmptyStr)
    /\ receipt.transaction_status # ""

\* C26: in live mode TelebirrVerifier.verify returns a receipt only if the page
\* was fetched with status 200 and the receipt number, the payer name, the
\* settled or the total paid amount, and the transaction status scraped from
\* it are all non-empty, and then it returns that receipt; if one of them is
\* empty it returns None.
C26_ReceiptValidity ==
    (response.op = "TelebirrVerifier.verify" /\ ~response.mock) =>
        LET fetched == ~response.http.raises /\ response.http.status_code = 200
            value == response.outcome.value
        IN  /\ ~response.outcome.raised
            /\ value # <<>> => (fetched /\ Complete(response.http.page[1])
                                /\ value = response.http.page)
            /\ (fetched /\ Complete(response.http.page[1])) => value # <<>>

\* a receipt that lacks only the transaction status came back as None
C26_Witness ==
    /\ response.op = "TelebirrVerifier.verify"
    /\ ~response.mock
    /\ response.http.status_code = 200
    /\ response.http.page[1] =
          TelebirrReceipt("RCPT", "Abebe", Birr(4450), EmptyStr, "")
    /\ response.outcome = Return(<<>>)

\* C27: AbyssiniaVerifier.verify returns success = true only if the GET
\* answered status 200, the status of the header is the success token, and the
\* first record of the body has a non-empty payer name and a strictly positive
\* amount; in every other case it returns success = false with a non-empty
\* error reason.
C27_BankOutcomeValidity ==
    (response.op = "AbyssiniaVerifier.verify" /\ ~response.mock) =>
        LET http == response.http
            value == response.outcome.value
            accepted ==
              /\ ~http.raises
              /\ http.status_code = 200
              /\ http.doc[1].kind = "object"
              /\ http.doc[1].header[1].kind = "dict"
              /\ http.doc[1].header[1].status \in {Str("success"), Str("SUCCESS")}
              /\ http.doc[1].body[1].rows # <<>>
              /\ LET txn == http.doc[1].body[1].rows[1] IN
                 /\ txn.payer_name.kind = "str"
                 /\ txn.payer_name.s \notin {"", " "}
                 /\ txn.amount.kind = "str"
                 /\ txn.amount.amount.kind = "birr"
                 /\ txn.amount.amount.v > 0
        IN  /\ ~response.outcome.raised
            /\ value.success => (accepted /\ value.payer_name # "" /\ value.amount > 0)
            /\ ~value.success => value.error # ""

\* The outcomes of mock mode
MockTelebirr(reference) ==
    [receipt_no |-> upper(reference), payer_name |-> "Abebe Kebede",
     settled_amount |-> Birr(15000), total_paid_amount |-> Birr(15345),
     transaction_status |-> "Completed"]

MockAbyssinia(reference, account_suffix) ==
    [success |-> TRUE, payer_name |-> "Yordanos Tesfaye", amount |-> 25000,
     reference |-> upper(reference) \o account_suffix, error |-> ""]

\* C28: with mock_mode = true each verifier returns, whatever the provider
\* would answer or raise, the successful outcome with the fixed payer and
\* amount and the (upper-cased) reference of the call, a function of the
\* reference (and suffix) alone; with mock_mode = false what it returns is
\* decided by the answer of the provider: a failure when the provider fails,
\* else the receipt of the page or of the body.
C28_MockModeDeterministic ==
    /\ (response.op = "TelebirrVerifier.verify" /\ response.mock) =>
          response.outcome = Return(<< MockTelebirr(response.reference) >>)
    /\ (response.op = "AbyssiniaVerifier.verify" /\ response.mock) =>
          response.outcome =
             Return(MockAbyssinia(response.reference, response.account_suffix))
    /\ (response.op = "TelebirrVerifier.verify" /\ ~response.mock) =>
          /\ (response.http.raises \/ response.http.status_code # 200) =>
                response.outcome = Return(<<>>)
          /\ response.outcome.value \in {<<>>, response.http.page}
    /\ (response.op = "AbyssiniaVerifier.verify" /\ ~response.mock) =>
          /\ (response.http.raises \/ response.http.status_code # 200) =>
                ~response.outcome.value.success
          /\ response.outcome.value.success =>
                response.outcome.value.payer_name
                   = response.http.doc[1].body[1].rows[1].payer_name.s

\* mock mode answered the receipt although the provider could not be reached
C28_Witness ==
    /\ response.op = "TelebirrVerifier.verify"
    /\ response.mock
    /\ response.http.raises
    /\ response.reference = "ft24ab"
    /\ response.outcome.value[1].receipt_no = "FT24AB"

-----------------------------------------------------------------------------
(* Overlapping verification requests *)

\* The Payment rows and the 'topup' Transaction rows of a reference
PaymentsOf(ref) == { p \in payments : p.reference_number = ref }

TopUpsOf(ref) ==
    { i \in DOMAIN transactions :
        transactions[i].transaction_type = "topup"
        /\ transactions[i].description = ref }

\* C29: whatever the overlap of verification requests carrying the same
\* reference, none of them having found the reference used when it looked,
\* the reference has at most one Payment row and at most one 'topup'
\* Transaction, the wallets hold exactly the credited top-ups, and a request
\* that is answered with an error has written nothing.
C29_ConcurrentReplay ==
    /\ [][ response'.error # "" => ledger' = ledger ]_vars
    /\ [](\A ref \in {"R1", "R2"} :
            /\ Cardinality(PaymentsOf(ref)) <= 1
            /\ Cardinality(TopUpsOf(ref)) <= 1
            /\ Cardinality(TopUpsOf(ref)) = Cardinality(PaymentsOf(ref)))
    /\ [](\A u \in users : wallet[u] = SumAmounts(transactions, u))

\* two requests passed the lookup for R1; one was credited, the other then
\* reached the atomic block and was answered 500 with nothing written
C29_Witness ==
    /\ requests = << >>
    /\ response.op = "verify" /\ response.error = "credit_failed"
    /\ Cardinality(PaymentsOf("R1")) = 1
    /\ Cardinality(TopUpsOf("R1")) = 1
    /\ payments = PaymentsOf("R1")

-----------------------------------------------------------------------------
(* The deduction of the admin *)

\* The steps of WalletAdmin.deduct_zcoin on one wallet: the test of the
\* balance, wallet.save(), Transaction.objects.create
DeductTested ==
    /\ admin.pc = "idle" /\ response'.op = "admin"
    /\ admin' # admin => admin'.action = "deduct_zcoin"

DeductSaved ==
    admin.action = "deduct_zcoin" /\ admin.pc = "save" /\ admin'.pc = "log"

DeductLogged ==
    admin.action = "deduct_zcoin" /\ admin.pc = "log" /\ admin'.pc = "idle"

\* C30: the deduction of the admin (50 ZCoin) leaves the balance and the
\* Transaction log as they are when the balance of the wallet is below the
\* amount; when the balance is the amount or more it lowers the balance by
\* exactly the amount and appends exactly one Transaction of minus the amount.
C30_BalanceCheckedDeduct ==
    [][ /\ DeductTested => ledger' = ledger
        /\ DeductSaved =>
              /\ wallet[admin.user] >= DEDUCT_ZCOIN_AMOUNT
              /\ wallet' = [wallet EXCEPT ![admin.user] = @ - DEDUCT_ZCOIN_AMOUNT]
              /\ transactions' = transactions
        /\ DeductLogged =>
              /\ wallet' = wallet
              /\ Len(transactions') = Len(transactions) + 1
              /\ SubSeq(transactions', 1, Len(transactions)) = transactions
              /\ transactions'[Len(transactions')].user = admin.user
              /\ transactions'[Len(transactions')].amount = -DEDUCT_ZCOIN_AMOUNT
      ]_vars

-----------------------------------------------------------------------------
(* Input errors of the verification request *)

\* The requests in error: an empty reference with any amount, and with a
\* reference a custom amount that is no decimal, a package that is not active,
\* neither package nor custom amount
InputErrors ==
    { <<" ", r[1], r[2]>> : r \in TopUpRequests }
    \cup { <<raw, r[1], r[2]>> : raw \in RawReferences,
            r \in {<<NULL, BadAmount>>, <<2, NoAmount>>, <<NULL, NoAmount>>} }

\* C31: a verification request with an empty reference, a custom amount that
\* is not a decimal, a package id without an active package, or neither
\* package nor custom amount is answered 400 with the reason of its error (or
\* as a duplicate), the verifier is not called, and no Payment, Wallet or
\* Transaction is created or changed.
C31_InputErrorsRejected ==
    [][response'.op = "verify" =>
         \A e \in InputErrors, u \in users :
            PaymentVerificationView_post(u, e[1], e[2], e[3])
              => /\ response'.code = 400
                 /\ response'.error \in {"reference_required", "duplicate",
                                         "invalid_amount", "invalid_package",
                                         "amount_required"}
                 /\ ~response'.verifier_called
                 /\ UNCHANGED ledger]_vars

-----------------------------------------------------------------------------
-----------------------------------------------------------------------------
(* Fallbacks of the valuation *)

ConfiguredCategories ==
    {"classics", "non-fiction", "fiction", "contemporary", "academic", "children",
     "reference"}

ConfiguredConditions == {"excellent", "good", "fair", "poor"}

-----------------------------------------------------------------------------
(* Changes of the settings *)

\* The figures of fiction / good / hardcover under a settings row
FigureOf(settings) ==
    LET computed == settings.fiction_base * settings.good_multiplier
                    + 100 * settings.hardcover_bonus
        final == quantize_half_up(Clamp(computed, 100 * settings.min_zcoin,
                                        100 * settings.max_zcoin))
    IN  [base_value |-> settings.fiction_base,
         condition_multiplier |-> settings.good_multiplier,
         bonuses |-> settings.hardcover_bonus,
         zcoin |-> final,
         price_birr |-> quantize_half_up(final * settings.zcoin_to_birr_rate)]

\* C34: a valuation call that returns uses the settings row as it is in the
\* table at the call, with every change saved before it; a save of the
\* settings or a later call leaves the log rows written before and the ZCoin
\* values of the books as they were.
C34_SettingsProspective ==
    [][ /\ (response'.op = "calculate_zcoin" /\ response'.raised = "") =>
             LET f == FigureOf(zcoin_settings[1]) IN
             /\ response'.base_value = f.base_value
             /\ response'.condition_multiplier = f.condition_multiplier
             /\ response'.bonuses = f.bonuses
             /\ response'.zcoin = f.zcoin
             /\ response'.price_birr = f.price_birr
        /\ SubSeq(calculation_log', 1, Len(calculation_log)) = calculation_log
        /\ response'.op = "settings_save" => calculation_log' = calculation_log
        /\ books' = books
      ]_vars

\* the same book valued before and after the base value, the multiplier, the
\* bonus and the rate were changed: 30.00 at 3.00, then 36.20 at 9.05
C34_Witness ==
    /\ Len(calculation_log) = 2
    /\ calculation_log[1].final_zcoin = 3000
    /\ calculation_log[2].final_zcoin = 3620
    /\ response.op = "calculate_zcoin"
    /\ response.price_birr = 905

-----------------------------------------------------------------------------
(* The scraping of the receipt page *)

Scraped == response.op = "scrape"

\* C35: each field of the scraped receipt is the first non-empty result in
\* the ordered lookups of that field, whatever the other fields found; the
\* receipt number is non-empty whenever one of its two lookups found
\* something.
C35_FirstNonEmptyWins ==
    Scraped =>
       LET page == response.page
           receipt == response.receipt
       IN  /\ receipt.payer_name =
                 (IF page.payer_name_td # "" THEN page.payer_name_td
                  ELSE page.payer_name_re)
           /\ receipt.settled_amount =
                 (IF page.settled_amount_td # "" THEN page.settled_amount_td
                  ELSE IF page.settled_amount_re1 # "" THEN page.settled_amount_re1
                  ELSE page.settled_amount_re2)
           /\ receipt.transaction_status =
                 (IF page.transaction_status_td # "" THEN page.transaction_status_td
                  ELSE page.transaction_status_re)
           /\ receipt.receipt_no =
                 (IF page.receipt_no_re # "" THEN page.receipt_no_re
                  ELSE page.receipt_no_text)
           /\ (page.receipt_no_re # "" \/ page.receipt_no_text # "")
                 => receipt.receipt_no # ""

-----------------------------------------------------------------------------
(* The ends of a verification request *)

\* The outcome an answer of the verification endpoint stands for
Outcome(resp) ==
    CASE resp.code = 200 -> "credited"
      [] resp.code = 500 -> "internal error"
      [] resp.code = 400 /\ resp.error = "duplicate" -> "duplicate reference"
      [] resp.code = 400 /\ resp.error = "not_found" -> "not found or invalid"
      [] resp.code = 400 /\ resp.error = "amount_mismatch" -> "amount mismatch"
      [] resp.code = 400 /\ resp.error \in {"reference_required", "invalid_package",
                                              "invalid_amount", "minimum_topup",
                                              "amount_required"} -> "input rejected"
      [] OTHER -> "none"

\* A step that answers a request: a request refused by the checks, or a
\* request in flight that ends
Answered ==
    \/ response' # response /\ response'.op = "verify" /\ requests' = requests
    \/ Len(requests') < Len(requests)

\* What every step keeps: a request that passes the checks goes in flight
\* without an answer and without a write; an answer is one of the six
\* outcomes, and a request in flight is answered once and leaves; the only
\* write is the credit made by the step that answers 'credited'
OneOutcome ==
    /\ Len(requests') > Len(requests) =>
         /\ Len(requests') = Len(requests) + 1
         /\ response' = response
         /\ UNCHANGED ledger
    /\ Answered =>
         /\ response'.op = "verify"
         /\ Outcome(response') # "none"
         /\ (Len(requests') = Len(requests) - 1) <=> response'.verifier_called
         /\ Len(requests') >= Len(requests) - 1
         /\ (Outcome(response') \in {"input rejected", "duplicate reference"})
               => ~response'.verifier_called
    /\ (<<payments, transactions>>' # <<payments, transactions>>) =>
         /\ Len(requests') = Len(requests) - 1
         /\ Outcome(response') = "credited"
    /\ (Answered /\ Outcome(response') # "credited") => UNCHANGED ledger

\* C36: every verification request ends with one answer, which is one of
\* input rejected, duplicate reference, not found or invalid, amount
\* mismatch, internal error, credited; nothing is written after an answer;
\* and with handlers that run to their return no request stays in flight for
\* ever: the request at any place of those in flight ends or moves up.
C36_RequestsTerminate ==
    /\ [][OneOutcome]_vars
    /\ \A i \in 1..MaxInFlight :
          \/ []<>(Len(requests) < i)
          \/ []<><<\E j \in 1..i : PaymentVerificationView_post_finish(j)>>_vars

\* two requests ended, one credited and one refused for its amount, and none
\* is in flight
C36_Witness ==
    /\ requests = << >>
    /\ Cardinality(payments) = 1
    /\ Len(transactions) = 1
    /\ response.op = "verify"
    /\ Outcome(response) = "amount mismatch"

-----------------------------------------------------------------------------
(* The refund of an approved swap *)

\* The 'refund' rows of the log linked to a swap
RefundsOf(id) ==
    { i \in 1..Len(transactions) :
        /\ transactions[i].transaction_type = "refund"
        /\ transactions[i].related_swap = id }

-----------------------------------------------------------------------------
(* One swap for a book *)

\* The swaps that ask for book b
SwapsFor(b) == { id \in 1..Len(swaps) : swaps[id].requested_book = b }

\* The 'swap' rows of the log
SwapDebits == { i \in 1..Len(transactions) : transactions[i].transaction_type = "swap" }

\* What every step keeps: a creation for a book that is no longer available
\* is rejected and goes nowhere; a step that stores a swap, changes a book or
\* debits a wallet stores one swap, takes an available book, marks it
\* unavailable and debits the wallet of its user once; a creation that is not
\* answered 201 writes nothing
OneClaim ==
    /\ response'.op = "swap_create" =>
         \A u \in users, b \in DOMAIN books, g \in GenreInputs, c \in ConditionInputs :
            (~books[b].is_available
             /\ SwapRequestViewSet_perform_create_begin(u, b, g, c))
              => /\ response'.code = 400
                 /\ response'.error \in {"book_not_available", "invalid"}
                 /\ requests' = requests
                 /\ UNCHANGED <<ledger, swaps, books>>
    /\ (\/ <<swaps, books>>' # <<swaps, books>>
        \/ \E x \in DOMAIN wallet : wallet'[x] < wallet[x]) =>
         /\ response'.op = "swap_create"
         /\ response'.code = 201
         /\ Len(swaps') = Len(swaps) + 1
         /\ Len(transactions') = Len(transactions) + 1
         /\ LET swap == swaps'[Len(swaps')] IN
              /\ books[swap.requested_book].is_available
              /\ ~books'[swap.requested_book].is_available
              /\ wallet'[swap.user] = Balance(swap.user) - swap.calculated_zcoin
              /\ \A x \in DOMAIN wallet \ {swap.user} : wallet'[x] = wallet[x]
    /\ (response'.op = "swap_create" /\ response'.code # 201) =>
         UNCHANGED <<ledger, swaps, books>>

=============================================================================
